---- MODULE Spec2Model ----
(***************************************************************************)
(* Annotation store over git notes: the synchronisation protocol of       *)
(* src/unnamed/part_002 (FetchNotes, PushNotes, PushNotesWithRetry,       *)
(* pushNotesAttempt) together with the single-key store operations it     *)
(* moves between replicas, run against a model of the git backend.        *)
(*                                                                         *)
(* A notes ref is absent or points at a commit; a commit is its parents   *)
(* and its notes tree (key -> set of lines; the empty set is "no note").  *)
(* Commits are values, as in a content-addressed store.                   *)
(***************************************************************************)
EXTENDS Integers, FiniteSets, Sequences, TLC

VARIABLES
    localRef,           \* refs/notes/<ns> of the local replica
    remoteRef,          \* refs/notes/<ns> of the remote "origin"
    remoteTrackingRef,  \* refs/remotes/origin/notes/<ns> of the local replica
    mergeInProgress,    \* the backend's in-progress notes-merge marker
    trackNotes,         \* remote.origin.fetch maps refs/notes/* to refs/remotes/origin/notes/*
    pc,                 \* position of the caller: "idle", or a step of a push attempt
    attempt,            \* loop variable of PushNotesWithRetry
    maxRetries,         \* argument of PushNotesWithRetry
    remoteName,         \* argument of the running PushNotesWithRetry
    remoteNotesExist,   \* local of pushNotesAttempt
    attemptErr,         \* err of the last finished pushNotesAttempt
    ret,                \* value returned by the last completed operation
    last,               \* the last operation called: its name and what it saw
    callers,            \* goroutines calling PushNotes concurrently: their positions
    bulk,               \* a GetNotesBulk call: its maps, its loop and its goroutines
    store,              \* the notes of one namespace as text, and the last store call
    listing,            \* the keys that have a note, and the last GetNoteList call
    stream,             \* the decoder loop of a GetNoteJSON call over a note's content
    ctxCall,            \* a GetNoteWithContext call and its context
    applied             \* the last ref name formed or failure classified, and its input

vars == <<localRef, remoteRef, remoteTrackingRef, mergeInProgress, trackNotes,
          pc, attempt, maxRetries, remoteName, remoteNotesExist, attemptErr,
          ret, last, callers, bulk, store, listing, stream, ctxCall, applied>>

----------------------------------------------------------------------------
(* Bounds *)

MaxCommits == 3        \* commits reachable from the three refs

(* Program constants *)

DefaultRetryAttempts == 3

Keys == {"A", "B"}                 \* commits that notes are attached to
LocalLines == {"l1"}               \* contents the local writer sets
RemoteLines == {"r1"}              \* contents the other writer sets
Remotes == {"origin"}              \* configured remotes
RemoteNames == {"origin", "nonexistentremote", ""}
RetryChoices == {0, 1, DefaultRetryAttempts}   \* attempt budgets a caller passes

----------------------------------------------------------------------------
(* The object model of the backend *)

EmptyTree == [k \in Keys |-> {}]

NoRef == [exists |-> FALSE, parents |-> {}, tree |-> EmptyTree]

Commit(ps, t) == [exists |-> TRUE, parents |-> ps, tree |-> t]

ParentsOf(r) == IF r.exists THEN {r} ELSE {}

RECURSIVE Ancestors(_)
Ancestors(c) == c.parents \cup UNION {Ancestors(p) : p \in c.parents}

History(r) == IF r.exists THEN {r} \cup Ancestors(r) ELSE {}

NumCommits == Cardinality(History(localRef) \cup History(remoteRef)
                          \cup History(remoteTrackingRef))

\* The merge base git notes merge uses; without one it merges against the empty tree.
MergeBase(l, r) ==
    LET common == History(l) \cap History(r)
        best == {c \in common : \A d \in common : c \notin Ancestors(d)}
    IN IF best = {} THEN NoRef ELSE CHOOSE c \in best : TRUE

\* How a notes merge strategy resolves a key both sides changed differently:
\* cat_sort_uniq concatenates the two notes, sorts the lines and drops duplicates,
\* i.e. takes the union of their lines.
Resolve(strategy, l, r) ==
    CASE strategy = "cat_sort_uniq" -> l \cup r
      [] strategy = "ours" -> l
      [] strategy = "theirs" -> r

\* git notes merge, per key: a side that left the key as the base has it yields
\* to the other side; two different changes go to the strategy.
MergeKey(strategy, b, l, r) ==
    IF l = r THEN l
    ELSE IF l = b THEN r
    ELSE IF r = b THEN l
    ELSE Resolve(strategy, l, r)

MergedTree(strategy, l, r) ==
    LET b == MergeBase(l, r)
    IN [k \in Keys |-> MergeKey(strategy, b.tree[k], l.tree[k], r.tree[k])]

\* The value of the local ref after a successful `git notes merge -s <strategy> <r>`.
NotesMerge(strategy, l, r) ==
    IF r \in History(l) THEN l                  \* already up to date
    ELSE IF l \in History(r) \/ ~l.exists THEN r \* fast-forward
    ELSE Commit({l, r}, MergedTree(strategy, l, r))

----------------------------------------------------------------------------
(* Failure signals: exit status and diagnostic text *)

\* A diagnostic text is modelled by the set of phrases that occur in it.
Lower(p) ==
    CASE p = "CONFLICT" -> "conflict"
      [] p = "Already up to date" -> "already up to date"
      [] p = "ALREADY UP TO DATE" -> "already up to date"
      [] p = "REJECTED" -> "rejected"
      [] p = "OBJECT HAS NO NOTE" -> "object has no note"
      [] p = "NO NOTE FOUND" -> "no note found"
      [] p = "NO NOTE FOUND FOR OBJECT" -> "no note found for object"
      [] p = "DOES NOT EXIST" -> "does not exist"
      [] p = "COULDN'T FIND REMOTE REF" -> "couldn't find remote ref"
      [] OTHER -> p

ToLower(text) == {Lower(p) : p \in text}

Contains(text, phrase) == phrase \in text

\* err.Error() of executeGitCommand holds "exit code N: exit status N; stderr: <stderr>".
GitErr(c, text) == [failed |-> TRUE, kind |-> "git", code |-> c, text |-> text]

Nil == [failed |-> FALSE, kind |-> "nil", code |-> 0, text |-> {}]

\* fmt.Errorf("...: %w; stderr: %s", err, stderr): the text of the wrapped error
\* and of the diagnostic stay part of the message.
Wrap(kind, err) == [err EXCEPT !.kind = kind]

\* An error the library builds itself.
NewErr(kind) == [failed |-> TRUE, kind |-> kind, code |-> 0, text |-> {}]

\* strings.Contains(err.Error(), "exit status <d>"): the decimal digits of the
\* exit status begin with the digits of d.
HasExitStatus(err, d) ==
    err.failed /\ \E k \in 0..2 : err.code \div (10 ^ k) = d

\* A backend call that fails for a reason of its own (network, permissions, ...).
Faults == {GitErr(1, {}), GitErr(1, {"other"}), GitErr(2, {"other"}),
           GitErr(128, {"other"})}

\* What a failing `git notes merge` may print.
MergeTexts == {{"CONFLICT"}, {"other"}, {"Already up to date"}, {"rejected"}}

MergeFailures == {GitErr(1, t) : t \in MergeTexts}

----------------------------------------------------------------------------
(* Responses of the backend *)

\* git fetch <name> <refspec>
GitFetch(name) ==
    IF name \notin Remotes
    THEN {GitErr(128, {"does not appear to be a git repository"})}
    ELSE IF ~remoteRef.exists
    THEN {GitErr(128, {"couldn't find remote ref"})} \cup Faults
    ELSE {Nil} \cup Faults

\* git push <name> <localRef>
GitPush(name) ==
    IF name \notin Remotes
    THEN {GitErr(128, {"does not appear to be a git repository"})}
    ELSE IF ~localRef.exists
    THEN {GitErr(1, {"src refspec does not match any"})}
    ELSE IF ~remoteRef.exists \/ remoteRef \in History(localRef)
    THEN {Nil} \cup Faults
    ELSE {IF remoteRef \in History(remoteTrackingRef)
          THEN GitErr(1, {"rejected", "non-fast-forward"})
          ELSE GitErr(1, {"rejected", "fetch first"})} \cup Faults

\* The remote-tracking ref after a transfer that saw the remote ref at r.
TrackingAfter(r) == IF trackNotes THEN r ELSE remoteTrackingRef

HasNotes(r) == r.exists /\ \E k \in Keys : r.tree[k] # {}

----------------------------------------------------------------------------
(* Classification of failures, as the operations spell it out *)

FetchNotesRefAbsentByTextOnly(err) ==
    LET stderrLower == ToLower(err.text)
    IN \/ Contains(stderrLower, "couldn't find remote ref")
       \/ Contains(stderrLower, "no such ref")
       \/ Contains(stderrLower, "fetch-pack: invalid refspec")

\* FetchNotes: the failures it takes for "the remote has no such ref".
FetchNotesRefAbsent(err) ==
    LET stderrLower == ToLower(err.text)
    IN \/ Contains(stderrLower, "couldn't find remote ref")
       \/ Contains(stderrLower, "no such ref")
       \/ Contains(stderrLower, "fetch-pack: invalid refspec")
       \/ HasExitStatus(err, 1)
       \/ HasExitStatus(err, 128)

PushFetchRefAbsentNever(err) == FALSE

\* pushNotesAttempt: the fetch failures it takes for "the remote has no such ref".
PushFetchRefAbsent(err) ==
    LET stderrLower == ToLower(err.text)
    IN \/ Contains(stderrLower, "couldn't find remote ref")
       \/ Contains(stderrLower, "no such ref")
       \/ Contains(stderrLower, "fetch-pack: invalid refspec")
       \/ (HasExitStatus(err, 1) /\ err.text = {})
       \/ HasExitStatus(err, 128)

MergeUpToDateNever(err) == FALSE

\* pushNotesAttempt: a merge failure that is not an error in this context.
MergeUpToDate(err) ==
    LET mergeStderrLower == ToLower(err.text)
    IN \/ Contains(mergeStderrLower, "already up to date")
       \/ Contains(mergeStderrLower, "nothing to merge")

MergeErrKind(err) ==
    IF Contains(ToLower(err.text), "conflict") THEN "merge_conflict" ELSE "merge"

\* PushNotesWithRetry: the errors it retries.
IsPushRetryable(err) ==
    \/ Contains(err.text, "non-fast-forward")
    \/ Contains(err.text, "fetch first")
    \/ Contains(err.text, "rejected")

----------------------------------------------------------------------------
(* Single-key store operations on the local replica *)

\* The last synchronisation call: the local ref as it found it, whether the
\* remote had the ref when the call began, the remote's ref as the call's last
\* transfer saw it, and whether a backend call failed for a reason of its own
\* ("backend") or the batched fetch of referenced commits did ("secondary").
\* For a push it also holds the attempt budget n, the attempts made, whether each
\* of them ended in a rejected push, and the writes another collaborator made to
\* the remote since the call began: "none", "one" (the write of raceLine to
\* raceKey, which fell between the first attempt's fetch and push), or "many".
NoCall == [op |-> "none", remote |-> "", preLocal |-> NoRef, remoteHadRef |-> FALSE,
           seenRemote |-> NoRef,
           fault |-> "none", n |-> 0, attempts |-> 0, allConflict |-> TRUE,
           remoteWrites |-> "none", raceKey |-> "", raceLine |-> ""]

Called(op, name) == [NoCall EXCEPT !.op = op, !.remote = name, !.preLocal = localRef,
                                   !.remoteHadRef = (name \in Remotes /\ remoteRef.exists)]

FaultOf(out, before) == IF out \in Faults THEN "backend" ELSE before

\* What the caller gets: nil, or an error of one of the library's kinds.
Returned(err) == [failed |-> err.failed, kind |-> err.kind]

Pending == [failed |-> FALSE, kind |-> "pending"]

SyncIdle == <<pc, attempt, maxRetries, remoteName, remoteNotesExist, attemptErr>>

\* GetNote: the content of the note of key k, or NoteNotFound.
GetNote(k) ==
    IF localRef.exists /\ localRef.tree[k] # {}
    THEN [found |-> TRUE, content |-> localRef.tree[k]]
    ELSE [found |-> FALSE, content |-> {}]

\* SetNote: git notes add -f, a new commit on the local ref with k overwritten.
SetNote(k, v) ==
    /\ pc = "idle"
    /\ NumCommits < MaxCommits
    /\ localRef' = Commit(ParentsOf(localRef), [localRef.tree EXCEPT ![k] = {v}])
    /\ ret' = Returned(Nil)
    /\ last' = NoCall
    /\ UNCHANGED <<remoteRef, remoteTrackingRef, mergeInProgress, trackNotes, SyncIdle>>
    /\ UNCHANGED <<callers, bulk, store, listing, stream, ctxCall, applied>>

\* DeleteNote: git notes remove; "object has no note" is success.
DeleteNote(k) ==
    /\ pc = "idle"
    /\ IF GetNote(k).found
       THEN /\ NumCommits < MaxCommits
            /\ localRef' = Commit(ParentsOf(localRef), [localRef.tree EXCEPT ![k] = {}])
       ELSE localRef' = localRef
    /\ ret' = Returned(Nil)
    /\ last' = NoCall
    /\ UNCHANGED <<remoteRef, remoteTrackingRef, mergeInProgress, trackNotes, SyncIdle>>
    /\ UNCHANGED <<callers, bulk, store, listing, stream, ctxCall, applied>>

\* Another collaborator writes a note and pushes it onto the remote's ref.
RemoteWrite(k, v) ==
    /\ NumCommits < MaxCommits
    /\ remoteRef' = Commit(ParentsOf(remoteRef), [remoteRef.tree EXCEPT ![k] = {v}])
    /\ last' = IF last.op # "PushNotes" THEN last
               ELSE IF pc \in {"merge", "push"} /\ attempt = 0
                       /\ last.remoteWrites = "none"
               THEN [last EXCEPT !.remoteWrites = "one", !.raceKey = k, !.raceLine = v]
               ELSE [last EXCEPT !.remoteWrites = "many", !.raceKey = "",
                                 !.raceLine = ""]
    /\ UNCHANGED <<localRef, remoteTrackingRef, mergeInProgress, trackNotes, SyncIdle,
                   ret>>
    /\ UNCHANGED <<callers, bulk, store, listing, stream, ctxCall, applied>>

----------------------------------------------------------------------------
(* FetchNotes *)

\* The batched fetch of the commits the fetched notes refer to: it runs when the
\* listing has output, and its result is discarded.
SecondaryFetch(r) == IF HasNotes(r) THEN {"none", "secondary"} ELSE {"none"}

FetchNotes(name) ==
    /\ pc = "idle"
    /\ IF name = ""
       THEN /\ ret' = Returned(NewErr("empty_remote"))
            /\ last' = Called("FetchNotes", name)
            /\ UNCHANGED <<localRef, remoteTrackingRef>>
       ELSE \E out \in GitFetch(name) :
              IF out.failed
              THEN /\ ret' = Returned(IF FetchNotesRefAbsent(out) THEN Nil
                                      ELSE Wrap("fetch", out))
                   /\ last' = [Called("FetchNotes", name) EXCEPT
                                  !.seenRemote = IF name \in Remotes THEN remoteRef
                                                 ELSE NoRef,
                                  !.fault = FaultOf(out, "none")]
                   /\ UNCHANGED <<localRef, remoteTrackingRef>>
              ELSE \E sec \in SecondaryFetch(remoteRef) :
                     /\ localRef' = remoteRef          \* --force <ref>:<ref>
                     /\ remoteTrackingRef' = TrackingAfter(remoteRef)
                     /\ ret' = Returned(Nil)
                     /\ last' = [Called("FetchNotes", name) EXCEPT
                                    !.seenRemote = remoteRef, !.fault = sec]
    /\ UNCHANGED <<remoteRef, mergeInProgress, trackNotes, SyncIdle>>
    /\ UNCHANGED <<callers, bulk, store, listing, stream, ctxCall, applied>>

----------------------------------------------------------------------------
(* PushNotes / PushNotesWithRetry / pushNotesAttempt *)

RetryAllowedOffByOne(a, n) == a < n

\* PushNotesWithRetry retries a retryable error unless the attempt was the last.
RetryAllowed(a, n) == a < n - 1

\* The call returns e: its variables end.
Return(e) ==
    /\ pc' = "idle"
    /\ attempt' = 0
    /\ maxRetries' = DefaultRetryAttempts
    /\ remoteName' = "origin"
    /\ attemptErr' = Nil
    /\ ret' = Returned(e)

\* The loop of PushNotesWithRetry after pushNotesAttempt returned err.
AttemptReturns(err) ==
    /\ IF ~err.failed
       THEN Return(Nil)
       ELSE IF IsPushRetryable(err) /\ RetryAllowed(attempt, maxRetries)
       THEN IF attempt + 1 < maxRetries          \* sleep; continue
            THEN /\ pc' = "fetch"
                 /\ attempt' = attempt + 1
                 /\ attemptErr' = err
                 /\ UNCHANGED <<ret, maxRetries, remoteName>>
            ELSE Return(NewErr("push_failed_after_attempts"))
       ELSE Return(err)
    /\ remoteNotesExist' = FALSE

\* What the finished attempt adds to the record of the call.
Attempted(call, err) ==
    [call EXCEPT !.attempts = attempt + 1,
                 !.allConflict = @ /\ err.failed /\ err.kind = "push"
                                   /\ IsPushRetryable(err)]

\* PushNotesWithRetry(namespace, name, n) up to the first attempt;
\* PushNotes is the call with n = DefaultRetryAttempts.
PushNotesWithRetry(name, n) ==
    /\ pc = "idle"
    /\ last' = [Called("PushNotes", name) EXCEPT !.n = n]
    /\ attemptErr' = Nil
    /\ IF name = ""
       THEN /\ ret' = Returned(NewErr("empty_remote"))
            /\ UNCHANGED <<pc, attempt, maxRetries, remoteName>>
       ELSE IF n <= 0
       THEN /\ ret' = Returned(NewErr("push_failed_after_attempts"))
            /\ UNCHANGED <<pc, attempt, maxRetries, remoteName>>
       ELSE /\ pc' = "fetch"
            /\ attempt' = 0
            /\ maxRetries' = n
            /\ remoteName' = name
            /\ ret' = Pending
    /\ UNCHANGED <<localRef, remoteRef, remoteTrackingRef, mergeInProgress, trackNotes,
                   remoteNotesExist>>
    /\ UNCHANGED <<callers, bulk, store, listing, stream, ctxCall, applied>>

\* pushNotesAttempt, first part: abort a previous merge, then fetch the remote's ref.
FetchStep ==
    /\ pc = "fetch"
    /\ mergeInProgress' = FALSE
    /\ \E out \in GitFetch(remoteName) :
         /\ last' = IF out.failed /\ ~PushFetchRefAbsent(out)
                    THEN Attempted([last EXCEPT !.fault = FaultOf(out, @)],
                                   Wrap("fetch", out))
                    ELSE [last EXCEPT !.fault = FaultOf(out, @)]
         /\ IF ~out.failed
            THEN /\ remoteNotesExist' = TRUE
                 /\ remoteTrackingRef' = TrackingAfter(remoteRef)
                 /\ pc' = "merge"
                 /\ UNCHANGED <<attempt, attemptErr, ret, maxRetries, remoteName>>
            ELSE IF PushFetchRefAbsent(out)
            THEN /\ remoteNotesExist' = FALSE
                 /\ pc' = "push"
                 /\ UNCHANGED <<remoteTrackingRef, attempt, attemptErr, ret,
                                maxRetries, remoteName>>
            ELSE /\ AttemptReturns(Wrap("fetch", out))
                 /\ UNCHANGED remoteTrackingRef
    /\ UNCHANGED <<localRef, remoteRef, trackNotes>>
    /\ UNCHANGED <<callers, bulk, store, listing, stream, ctxCall, applied>>

MergeStrategyTheirs == "theirs"

MergeStrategyOurs == "ours"

\* The strategy pushNotesAttempt passes to git notes merge.
MergeStrategy == "cat_sort_uniq"

RestoreLocalRefToTracking(localRefSHA, current, tracking) ==
    IF localRefSHA.exists THEN tracking ELSE current

\* update-ref back to the snapshot taken before the merge, when there was one.
RestoreLocalRef(localRefSHA, current, tracking) ==
    IF localRefSHA.exists THEN localRefSHA ELSE current

\* merge --abort after a failed merge.
AbortFailedMerge(marker) == FALSE

\* pushNotesAttempt, second part: snapshot the local ref, verify the
\* remote-tracking ref, merge it, and roll back when the merge fails.
MergeStep ==
    /\ pc = "merge"
    /\ LET localRefSHA == localRef
       IN IF ~remoteTrackingRef.exists
          THEN /\ pc' = "push"
               /\ UNCHANGED <<localRef, mergeInProgress, attempt, attemptErr, ret, last,
                              maxRetries, remoteName, remoteNotesExist>>
          ELSE \/ /\ \/ NotesMerge(MergeStrategy, localRef, remoteTrackingRef) \in
                           History(localRef) \cup History(remoteTrackingRef)
                     \/ NumCommits < MaxCommits
                  /\ localRef' = NotesMerge(MergeStrategy, localRef, remoteTrackingRef)
                  /\ pc' = "push"
                  /\ UNCHANGED <<mergeInProgress, attempt, attemptErr, ret, last,
                                 maxRetries, remoteName, remoteNotesExist>>
               \/ \E mergeErr \in MergeFailures, marker \in BOOLEAN :
                    /\ last' = IF MergeUpToDate(mergeErr)
                               THEN [last EXCEPT !.fault = "backend"]
                               ELSE Attempted([last EXCEPT !.fault = "backend"],
                                              Wrap(MergeErrKind(mergeErr), mergeErr))
                    /\ IF MergeUpToDate(mergeErr)
                       THEN /\ pc' = "push"
                            /\ mergeInProgress' = marker
                            /\ UNCHANGED <<localRef, attempt, attemptErr, ret,
                                           maxRetries, remoteName, remoteNotesExist>>
                       ELSE /\ mergeInProgress' = AbortFailedMerge(marker)
                            /\ localRef' = RestoreLocalRef(localRefSHA, localRef,
                                                           remoteTrackingRef)
                            /\ AttemptReturns(Wrap(MergeErrKind(mergeErr), mergeErr))
    /\ UNCHANGED <<remoteRef, remoteTrackingRef, trackNotes>>
    /\ UNCHANGED <<callers, bulk, store, listing, stream, ctxCall, applied>>

PushResultDropped(out) == Nil

\* What pushNotesAttempt returns for the outcome of its push.
PushResult(out) == IF out.failed THEN Wrap("push", out) ELSE Nil

\* pushNotesAttempt, last part: push the local ref.
PushStep ==
    /\ pc = "push"
    /\ \E out \in GitPush(remoteName) :
         /\ last' = Attempted([last EXCEPT
                                 !.fault = FaultOf(out, @),
                                 !.seenRemote = IF remoteName \in Remotes
                                                THEN remoteRef ELSE NoRef],
                              PushResult(out))
         /\ IF out.failed
            THEN UNCHANGED <<remoteRef, remoteTrackingRef>>
            ELSE /\ remoteRef' = localRef
                 /\ remoteTrackingRef' = TrackingAfter(localRef)
         /\ AttemptReturns(PushResult(out))
    /\ UNCHANGED <<localRef, mergeInProgress, trackNotes>>
    /\ UNCHANGED <<callers, bulk, store, listing, stream, ctxCall, applied>>

----------------------------------------------------------------------------
(* PushNotes called from several goroutines of one process.  Every goroutine  *)
(* runs PushNotes(namespace, "origin") on the one repository; the steps are   *)
(* the backend invocations of pushNotesAttempt, in its order.                 *)

Goroutines == {"g1", "g2"}

\* A goroutine that is not inside PushNotes; slept holds the delays, in
\* milliseconds, its last call slept between attempts.
IdleCaller == [pc |-> "idle", attempt |-> 0, remoteNotesExist |-> FALSE,
               localRefSHA |-> NoRef, err |-> Nil, slept |-> <<>>]

\* time.Duration(attempt*attempt) * 100 * time.Millisecond
Backoff(a) == a * a * 100

\* The loop of PushNotesWithRetry after the attempt of caller c returned err:
\* sleep and start the next attempt, or return.
AfterAttempt(c, err) ==
    IF /\ err.failed /\ IsPushRetryable(err)
       /\ RetryAllowed(c.attempt, DefaultRetryAttempts)
       /\ c.attempt + 1 < DefaultRetryAttempts
    THEN [IdleCaller EXCEPT !.pc = "abort", !.attempt = c.attempt + 1,
                            !.slept = Append(c.slept, Backoff(c.attempt))]
    ELSE [IdleCaller EXCEPT !.slept = c.slept]

SyncCaller == <<pc, attempt, maxRetries, remoteName, remoteNotesExist, attemptErr,
                ret, last>>

\* PushNotes(namespace, "origin"): enter the loop with attempt = 0.
GoPushNotes(g) ==
    /\ callers[g].pc = "idle"
    /\ callers' = [callers EXCEPT ![g] = [IdleCaller EXCEPT !.pc = "abort"]]
    /\ UNCHANGED <<localRef, remoteRef, remoteTrackingRef, mergeInProgress, trackNotes>>
    /\ UNCHANGED <<SyncCaller, bulk, store, listing, stream, ctxCall, applied>>

\* notes merge --abort, whatever merge is in progress.
GoAbort(g) ==
    /\ callers[g].pc = "abort"
    /\ mergeInProgress' = FALSE
    /\ callers' = [callers EXCEPT ![g].pc = "fetch"]
    /\ UNCHANGED <<localRef, remoteRef, remoteTrackingRef, trackNotes>>
    /\ UNCHANGED <<SyncCaller, bulk, store, listing, stream, ctxCall, applied>>

\* fetch <remote> <ref> and the classification of its failure.
GoFetch(g) ==
    /\ callers[g].pc = "fetch"
    /\ \E out \in GitFetch("origin") :
         IF ~out.failed
         THEN /\ remoteTrackingRef' = TrackingAfter(remoteRef)
              /\ callers' = [callers EXCEPT ![g].pc = "snapshot",
                                            ![g].remoteNotesExist = TRUE]
         ELSE /\ UNCHANGED remoteTrackingRef
              /\ callers' = [callers EXCEPT ![g] =
                               IF PushFetchRefAbsent(out)
                               THEN [@ EXCEPT !.pc = "push", !.remoteNotesExist = FALSE]
                               ELSE AfterAttempt(@, Wrap("fetch", out))]
    /\ UNCHANGED <<localRef, remoteRef, mergeInProgress, trackNotes>>
    /\ UNCHANGED <<SyncCaller, bulk, store, listing, stream, ctxCall, applied>>

\* rev-parse <ref> into localRefSHA, then rev-parse --verify <remote-tracking ref>.
GoSnapshot(g) ==
    /\ callers[g].pc = "snapshot"
    /\ callers' = [callers EXCEPT
                     ![g].localRefSHA = localRef,
                     ![g].pc = IF remoteTrackingRef.exists THEN "merge" ELSE "push"]
    /\ UNCHANGED <<localRef, remoteRef, remoteTrackingRef, mergeInProgress, trackNotes>>
    /\ UNCHANGED <<SyncCaller, bulk, store, listing, stream, ctxCall, applied>>

\* notes merge -s cat_sort_uniq <remote-tracking ref>.
GoMerge(g) ==
    /\ callers[g].pc = "merge"
    /\ \/ /\ remoteTrackingRef.exists
          /\ \/ NotesMerge(MergeStrategy, localRef, remoteTrackingRef) \in
                  History(localRef) \cup History(remoteTrackingRef)
             \/ NumCommits < MaxCommits
          /\ localRef' = NotesMerge(MergeStrategy, localRef, remoteTrackingRef)
          /\ callers' = [callers EXCEPT ![g].pc = "push"]
          /\ UNCHANGED mergeInProgress
       \/ \E mergeErr \in MergeFailures, marker \in BOOLEAN :
            /\ mergeInProgress' = marker
            /\ callers' = [callers EXCEPT ![g] =
                             IF MergeUpToDate(mergeErr)
                             THEN [@ EXCEPT !.pc = "push"]
                             ELSE [@ EXCEPT !.pc = "rollback",
                                            !.err = Wrap(MergeErrKind(mergeErr),
                                                         mergeErr)]]
            /\ UNCHANGED localRef
    /\ UNCHANGED <<remoteRef, remoteTrackingRef, trackNotes>>
    /\ UNCHANGED <<SyncCaller, bulk, store, listing, stream, ctxCall, applied>>

\* After a failed merge: notes merge --abort, update-ref back to localRefSHA,
\* and the attempt returns the merge error.
GoRollback(g) ==
    /\ callers[g].pc = "rollback"
    /\ mergeInProgress' = AbortFailedMerge(mergeInProgress)
    /\ localRef' = RestoreLocalRef(callers[g].localRefSHA, localRef, remoteTrackingRef)
    /\ callers' = [callers EXCEPT ![g] = AfterAttempt(@, @.err)]
    /\ UNCHANGED <<remoteRef, remoteTrackingRef, trackNotes>>
    /\ UNCHANGED <<SyncCaller, bulk, store, listing, stream, ctxCall, applied>>

\* push <remote> <ref>, the last step of the attempt.
GoPush(g) ==
    /\ callers[g].pc = "push"
    /\ \E out \in GitPush("origin") :
         /\ IF out.failed
            THEN UNCHANGED <<remoteRef, remoteTrackingRef>>
            ELSE /\ remoteRef' = localRef
                 /\ remoteTrackingRef' = TrackingAfter(localRef)
         /\ callers' = [callers EXCEPT ![g] = AfterAttempt(@, PushResult(out))]
    /\ UNCHANGED <<localRef, mergeInProgress, trackNotes>>
    /\ UNCHANGED <<SyncCaller, bulk, store, listing, stream, ctxCall, applied>>

----------------------------------------------------------------------------
(* Revisions and their validation *)

Commits == {"c1", "c2"}                 \* revisions that resolve to an object
DashRefs == {"-x"}                      \* revisions that begin with '-'
NulRefs == {"c1<NUL>"}                  \* revisions that contain a NUL byte
Revisions == Commits \cup {"nonexistentsha"} \cup DashRefs \cup NulRefs

\* isSafeRevisionSpec: empty, or neither a leading '-' nor a NUL byte.
isSafeRevisionSpec(sha) ==
    IF sha = "" THEN TRUE
    ELSE IF sha \in DashRefs THEN FALSE
    ELSE sha \notin NulRefs

\* Revision expressions that are resolved relative to the current head.
SymbolicRefs == {"HEAD~1"}

\* The history: c1 is the root commit and the parent of c2.
FirstParent(c) == IF c = "c2" THEN "c1" ELSE ""

\* git rev-parse <sha>, with HEAD at head: the commit, or "" when sha resolves
\* to no object.
RevParse(sha, head) ==
    IF sha \in Commits THEN sha
    ELSE IF sha \in SymbolicRefs THEN FirstParent(head)
    ELSE ""

\* git rev-parse --verify <sha> succeeds.
RevParseVerify(sha) == RevParse(sha, store.head) # ""

validateCommitSHANever(sha) == [err |-> Nil, cmds |-> <<>>]

\* validateCommitSHA: the error it returns, and the backend commands it ran.
validateCommitSHA(sha) ==
    IF ~isSafeRevisionSpec(sha)
    THEN [err |-> NewErr("InvalidCommitSha"), cmds |-> <<>>]
    ELSE IF sha = ""
    THEN [err |-> Nil, cmds |-> <<>>]
    ELSE IF ~RevParseVerify(sha)
    THEN [err |-> NewErr("InvalidCommitSha"), cmds |-> <<"rev-parse --verify">>]
    ELSE [err |-> Nil, cmds |-> <<"rev-parse --verify">>]

\* strings.Contains(err.Error(), "exit code <d>"): executeGitCommand writes the
\* exit code in decimal, so the test matches every code whose digits begin with d.
HasExitCode(err, d) == HasExitStatus(err, d)

\* A failure of `git notes ...` for a reason of its own.
NotesFaults == {GitErr(128, {"other"}), GitErr(2, {"other"})}

\* `git notes show <sha>` for an object without a note: exit code 1 and
\* "error: no note found for object <sha>."
NoNoteFound == GitErr(1, {"no note found", "no note found for object"})

\* `git notes remove <sha>` for an object without a note: exit code 1 and
\* "Object <sha> has no note".
HasNoNote == GitErr(1, {"has no note"})

----------------------------------------------------------------------------
(* GetNotesBulk *)

MaxBulkRefs == 2       \* length of the input lists tried in full
ManyRefs == 11         \* length of the long input list

BulkConcurrency == 10  \* capacity of the semaphore channel

BulkRefs == {"c1", "c2", "nonexistentsha", "-x"}
NotedCommits == {"c1"}                  \* commits that have a note in the namespace

BulkInputs ==
    UNION {[1..n -> BulkRefs] : n \in 0..MaxBulkRefs}
      \cup {[j \in 1..ManyRefs |-> "c1"], [j \in 1..ManyRefs |-> IF j = 1 THEN "c2" ELSE "c1"]}

NoWorker == [busy |-> FALSE, sha |-> "", out |-> Nil]

EmptyMap == [x \in {} |-> Nil]

Put(m, key, v) == [x \in DOMAIN m \cup {key} |-> IF x = key THEN v ELSE m[x]]

NoCounts == [r \in BulkRefs |-> 0]

RECURSIVE SumOver(_, _)
SumOver(f, S) == IF S = {} THEN 0
                 ELSE LET x == CHOOSE y \in S : TRUE IN f[x] + SumOver(f, S \ {x})

\* A GetNotesBulk call.  Goroutines are counted by the commitSha they were started
\* with: waiting for a slot of the semaphore, or holding one and inside GetNote.
\* worker is the goroutine that holds the mutex and writes its outcome.
NoBulk == [pc |-> "idle", input |-> <<>>, i |-> 1,
           results |-> EmptyMap, errors |-> EmptyMap,
           waiting |-> NoCounts, reading |-> NoCounts, worker |-> NoWorker,
           shown |-> {}, raced |-> FALSE]

ReadsInFlight == SumOver(bulk.reading, BulkRefs)

SlotsHeld == ReadsInFlight + (IF bulk.worker.busy THEN 1 ELSE 0)

SemHasRoomAlways(held) == TRUE

\* sem <- struct{}{} proceeds while the channel holds fewer than its capacity.
SemHasRoom(held) == held < BulkConcurrency

\* What `git notes show` gives GetNote for a validated revision.
NotesShow(sha) ==
    (IF sha \in NotedCommits THEN {Nil} ELSE {NoNoteFound}) \cup NotesFaults

GetNoteErrUnclassified(out) == IF ~out.failed THEN Nil ELSE Wrap("get", out)

\* GetNoteWithContext: the error it returns for the outcome of `git notes show`.
GetNoteErr(out) ==
    IF ~out.failed THEN Nil
    ELSE LET stderrLower == ToLower(out.text)
         IN IF /\ HasExitCode(out, 1)
               /\ \/ Contains(stderrLower, "no note found")
                  \/ Contains(stderrLower, "no notes found")
            THEN NewErr("NoteNotFound")
            ELSE IF \/ Contains(out.text, "no note found for object")
                    \/ Contains(out.text, "failed to get note")
            THEN NewErr("NoteNotFound")
            ELSE IF \/ Contains(out.text, "fatal: failed to resolve")
                    \/ HasExitCode(out, 128)
            THEN NewErr("InvalidCommitSha")
            ELSE Wrap("get", out)

\* GetNote(namespace, sha) as a goroutine of GetNotesBulk runs it: the error it
\* returns and whether it got as far as `git notes show`.
BulkGetNote(sha) ==
    IF validateCommitSHA(sha).err.failed
    THEN {[err |-> validateCommitSHA(sha).err, shown |-> FALSE]}
    ELSE {[err |-> GetNoteErr(out), shown |-> TRUE] : out \in NotesShow(sha)}

BulkOther == <<localRef, remoteRef, remoteTrackingRef, mergeInProgress, trackNotes,
               SyncCaller, callers, store, listing, stream, ctxCall, applied>>

\* GetNotesBulk(namespace, list): the two maps are made.
GetNotesBulk(list) ==
    /\ bulk.pc \in {"idle", "returned"}
    /\ bulk' = [NoBulk EXCEPT !.pc = "validate", !.input = list]
    /\ UNCHANGED BulkOther

\* One iteration of the validation loop; after the last, the dispatch loop begins.
BulkValidate ==
    /\ bulk.pc = "validate"
    /\ IF bulk.i > Len(bulk.input)
       THEN bulk' = [bulk EXCEPT !.pc = "dispatch", !.i = 1]
       ELSE LET sha == bulk.input[bulk.i]
                err == validateCommitSHA(sha).err
            IN bulk' = [bulk EXCEPT !.i = @ + 1,
                                    !.errors = IF err.failed THEN Put(@, sha, err) ELSE @]
    /\ UNCHANGED BulkOther

\* A goroutine holds the mutex and writes the error map.
WritingErrors == bulk.worker.busy /\ bulk.worker.out.failed

\* errors[sha] as the dispatch loop reads it, without the mutex: while a goroutine
\* is writing the error map the read is a data race, and the runtime may also
\* stop the process (concurrent map read and map write).
HasError(sha) ==
    IF WritingErrors THEN {"yes", "no", "fatal"}
    ELSE {IF sha \in DOMAIN bulk.errors THEN "yes" ELSE "no"}

\* One iteration of the dispatch loop: skip a revision that has an error, start a
\* goroutine for any other; after the last, wg.Wait().
BulkDispatch ==
    /\ bulk.pc = "dispatch"
    /\ IF bulk.i > Len(bulk.input)
       THEN bulk' = [bulk EXCEPT !.pc = "wait"]
       ELSE LET sha == bulk.input[bulk.i]
            IN \E hasError \in HasError(sha) :
                 bulk' = IF hasError = "fatal" THEN [bulk EXCEPT !.pc = "crashed"]
                         ELSE [bulk EXCEPT
                                 !.i = @ + 1,
                                 !.raced = @ \/ WritingErrors,
                                 !.waiting[sha] = IF hasError = "yes" THEN @ ELSE @ + 1]
    /\ UNCHANGED BulkOther

BulkRunning == bulk.pc \in {"dispatch", "wait"}

\* A goroutine takes a slot of the semaphore and calls GetNote.
BulkAcquire(sha) ==
    /\ BulkRunning
    /\ bulk.waiting[sha] > 0
    /\ SemHasRoom(SlotsHeld)
    /\ bulk' = [bulk EXCEPT !.waiting[sha] = @ - 1, !.reading[sha] = @ + 1]
    /\ UNCHANGED BulkOther

\* GetNote returns to a goroutine, which takes the mutex.
BulkRead(sha) ==
    /\ BulkRunning
    /\ bulk.reading[sha] > 0
    /\ ~bulk.worker.busy
    /\ \E got \in BulkGetNote(sha) :
         bulk' = [bulk EXCEPT
                    !.reading[sha] = @ - 1,
                    !.worker = [busy |-> TRUE, sha |-> sha, out |-> got.err],
                    !.shown = IF got.shown THEN @ \cup {sha} ELSE @]
    /\ UNCHANGED BulkOther

\* The goroutine writes its outcome under its own key, unlocks, gives its slot
\* back and is done.
BulkWrite ==
    /\ BulkRunning
    /\ bulk.worker.busy
    /\ LET w == bulk.worker
       IN bulk' = [bulk EXCEPT
                     !.worker = NoWorker,
                     !.errors = IF w.out.failed THEN Put(@, w.sha, w.out) ELSE @,
                     !.results = IF w.out.failed THEN @ ELSE Put(@, w.sha, "note")]
    /\ UNCHANGED BulkOther

\* wg.Wait() returns once every goroutine is done; the maps are returned.
BulkReturn ==
    /\ bulk.pc = "wait"
    /\ SumOver(bulk.waiting, BulkRefs) = 0 /\ ReadsInFlight = 0 /\ ~bulk.worker.busy
    /\ bulk' = [bulk EXCEPT !.pc = "returned"]
    /\ UNCHANGED BulkOther

----------------------------------------------------------------------------
(* The single-key store operations on note text *)

MaxNoteSize == 10 * 1024 * 1024
MaxJSONObjects == 1000

JSONValues == {"v1", "v2"}

\* A text is lead ++ body^reps ++ trail: lead and trail are "" or one whitespace
\* character, body is a one-byte letter or stands for the compact JSON encoding
\* json.Marshal gives a value.
Text(lead, body, reps, trail) ==
    [lead |-> lead, body |-> body, reps |-> reps, trail |-> trail]

EmptyText == Text("", "a", 0, "")

NoNote == [lead |-> "", body |-> "none", reps |-> 0, trail |-> ""]

WsLen(w) == IF w = "" THEN 0 ELSE 1

BodyLen(body) == IF body \in JSONValues THEN 8 ELSE 1

\* len(value)
Size(c) == WsLen(c.lead) + c.reps * BodyLen(c.body) + WsLen(c.trail)

\* strings.TrimSpace
TrimSpace(c) == IF c.reps = 0 THEN EmptyText ELSE [c EXCEPT !.lead = "", !.trail = ""]

\* The clean-up `git notes add -m` gives its message: trailing whitespace goes,
\* a text with nothing else becomes empty, any other ends with one newline.
Stripspace(c) == IF c.reps = 0 THEN EmptyText ELSE [c EXCEPT !.trail = "\n"]

\* Contents callers write with SetNote.
Values ==
    {Text("", "a", 1, ""), Text("", "b", 1, ""), Text(" ", "a", 1, ""),
     Text("", "a", 1, " "), Text(" ", "a", 0, ""),
     Text("", "a", MaxNoteSize, ""), Text("", "a", MaxNoteSize + 1, "")}

ExceedsMaxSizeOrEqual(value) == Size(value) >= MaxNoteSize

\* len(value) > MaxNoteSize
ExceedsMaxSize(value) == Size(value) > MaxNoteSize

\* json.Marshal(value)
Marshal(v) == Text("", v, 1, "")

\* json.Unmarshal of the content into a slice: a content that is no JSON array
\* is refused.
UnmarshalSlice(c) == [err |-> NewErr("decode"), items |-> <<>>]

\* The stream decoder of GetNoteJSON over a note's content.
Decode(c) ==
    IF c.body \notin JSONValues
    THEN [err |-> NewErr("decode"), items |-> <<>>]
    ELSE IF c.reps > MaxJSONObjects
    THEN [err |-> NewErr("too_many_objects"),
          items |-> [j \in 1..MaxJSONObjects |-> c.body]]
    ELSE [err |-> Nil, items |-> [j \in 1..c.reps |-> c.body]]

\* The exec of a command line the system refuses (argument list too long).
ExecErr == [failed |-> TRUE, kind |-> "git", code |-> 0 - 1, text |-> {"other"}]

\* Revisions the store operations are called with; "" stands for HEAD.
StoreRevisions == Revisions \cup {""}
HeadCommit == "c1"

\* The commit a call acts on: HEAD for the empty revision, else what the backend
\* resolves the revision to.
Resolved(sha) == IF sha = "" THEN store.head ELSE RevParse(sha, store.head)

NoNotes == [c \in Commits |-> NoNote]

\* The last store call: its arguments, the error and the text it returned, the
\* backend commands it ran, whether a backend command failed for a reason of its
\* own, whether it changed a note, and what the calls before it had done to its
\* key.  written[c] is the value of the last SetNote on c that returned nil, until
\* another call writes c; replaced[c] tells that this SetNote found a note;
\* deleted[c] tells that the last call to write c was a DeleteNote that returned nil.
NoStoreCall == [op |-> "none", sha |-> "", value |-> NoNote, err |-> Returned(Nil),
                out |-> NoNote, items |-> <<>>, cmds |-> <<>>, fault |-> FALSE,
                changed |-> FALSE, wasDeleted |-> FALSE, key |-> ""]

\* head is the commit HEAD points at; viaExpr[c] tells that the SetNote that
\* wrote written[c] was given a symbolic revision expression.
NoStore == [notes |-> NoNotes, written |-> NoNotes,
            replaced |-> [c \in Commits |-> FALSE],
            deleted |-> [c \in Commits |-> FALSE],
            viaExpr |-> [c \in Commits |-> FALSE],
            head |-> HeadCommit, last |-> NoStoreCall]

StoreOther == <<localRef, remoteRef, remoteTrackingRef, mergeInProgress, trackNotes,
                SyncCaller, callers, bulk, listing, stream, ctxCall, applied>>

\* git notes add -f -m <value> <sha>
NotesAdd == {Nil, ExecErr} \cup NotesFaults

\* git notes remove <sha>
NotesRemove(c) ==
    (IF store.notes[c] = NoNote THEN {HasNoNote} ELSE {Nil}) \cup NotesFaults

\* git notes show <sha> on the store
NotesShowText(c) ==
    (IF store.notes[c] = NoNote THEN {NoNoteFound} ELSE {Nil}) \cup NotesFaults

IsFault(out) == out \in NotesFaults \cup {ExecErr}

\* SetNote(namespace, sha, value), called as op: validation, size check, then the
\* backend.
SetNoteAs(op, sha, value) ==
    LET v == validateCommitSHA(sha)
        call == [NoStoreCall EXCEPT !.op = op, !.sha = sha, !.value = value]
    IN /\ IF v.err.failed
          THEN store' = [store EXCEPT
                           !.last = [call EXCEPT !.err = Returned(v.err), !.cmds = v.cmds]]
          ELSE IF ExceedsMaxSize(value)
          THEN store' = [store EXCEPT
                           !.last = [call EXCEPT !.err = Returned(NewErr("NoteSizeExceeded")),
                                                 !.cmds = v.cmds]]
          ELSE LET c == Resolved(sha)
                   cmds == v.cmds \o (IF sha = "" THEN <<"rev-parse HEAD">> ELSE <<>>)
                                  \o <<"notes add">>
                   note == IF Stripspace(value) = EmptyText THEN NoNote
                           ELSE Stripspace(value)
               IN \E out \in NotesAdd :
                    IF out.failed
                    THEN store' = [store EXCEPT
                                     !.last = [call EXCEPT !.err = Returned(Wrap("set", out)),
                                                           !.cmds = cmds, !.fault = TRUE,
                                                           !.key = c]]
                    ELSE store' = [store EXCEPT
                                     !.notes[c] = note,
                                     !.written[c] = value,
                                     !.replaced[c] = (store.notes[c] # NoNote),
                                     !.deleted[c] = FALSE,
                                     !.viaExpr[c] = (sha \in SymbolicRefs),
                                     !.last = [call EXCEPT !.cmds = cmds, !.key = c,
                                                  !.changed = (note # store.notes[c])]]
       /\ UNCHANGED StoreOther

SetNoteText(sha, value) == SetNoteAs("SetNote", sha, value)

\* SetNoteJSON(namespace, sha, v)
SetNoteJSON(sha, v) ==
    IF sha = ""
    THEN /\ store' = [store EXCEPT
                        !.last = [NoStoreCall EXCEPT !.op = "SetNoteJSON",
                                                     !.value = Marshal(v),
                                                     !.err = Returned(NewErr("empty_sha"))]]
         /\ UNCHANGED StoreOther
    ELSE SetNoteAs("SetNoteJSON", sha, Marshal(v))

\* GetNote(namespace, sha): the error and the text it may return, with the backend
\* commands it ran.
GetNoteWithContext(sha) ==
    LET v == validateCommitSHA(sha)
    IN IF v.err.failed
       THEN {[err |-> v.err, out |-> NoNote, cmds |-> v.cmds, fault |-> FALSE,
              key |-> ""]}
       ELSE LET c == Resolved(sha)
                cmds == v.cmds \o (IF sha = "" THEN <<"rev-parse HEAD">> ELSE <<>>)
                               \o <<"notes show">>
            IN {[err |-> GetNoteErr(out),
                 out |-> IF out.failed THEN NoNote ELSE TrimSpace(store.notes[c]),
                 cmds |-> cmds, fault |-> IsFault(out), key |-> c] :
                   out \in NotesShowText(c)}

\* The error types errors.As looks for.
TypedKinds == {"NoteNotFound", "InvalidCommitSha", "NoteSizeExceeded"}

\* fmt.Errorf("...: %w", err): errors.As still finds a typed error inside.
WrapTyped(kind, err) == IF err.kind \in TypedKinds THEN err ELSE Wrap(kind, err)

GetNoteJSONErrNil(err) == Nil

\* GetNoteJSON: what it returns for a failed GetNote.
GetNoteJSONErr(err) ==
    IF err.kind = "NoteNotFound" THEN Nil ELSE WrapTyped("get_json", err)

WasDeleted(sha) == Resolved(sha) \in Commits /\ store.deleted[Resolved(sha)]

GetNoteText(sha) ==
    /\ \E got \in GetNoteWithContext(sha) :
         store' = [store EXCEPT
                     !.last = [NoStoreCall EXCEPT
                                 !.op = "GetNote", !.sha = sha,
                                 !.err = Returned(got.err), !.out = got.out,
                                 !.cmds = got.cmds, !.fault = got.fault,
                                 !.key = got.key,
                                 !.wasDeleted = WasDeleted(sha)]]
    /\ UNCHANGED StoreOther

\* GetNoteJSON(namespace, sha): no note and an empty note give no items; any
\* other content goes through the stream decoder.
GetNoteJSON(sha) ==
    /\ LET call == [NoStoreCall EXCEPT !.op = "GetNoteJSON", !.sha = sha]
       IN IF sha = ""
          THEN store' = [store EXCEPT
                           !.last = [call EXCEPT !.err = Returned(NewErr("empty_sha"))]]
          ELSE \E got \in GetNoteWithContext(sha) :
                 LET res == IF got.err.failed
                            THEN [err |-> GetNoteJSONErr(got.err), items |-> <<>>]
                            ELSE IF TrimSpace(got.out) = EmptyText
                            THEN [err |-> Nil, items |-> <<>>]
                            ELSE Decode(got.out)
                 IN store' = [store EXCEPT
                                !.last = [call EXCEPT
                                            !.err = Returned(res.err),
                                            !.items = res.items,
                                            !.cmds = got.cmds, !.fault = got.fault,
                                            !.key = got.key,
                                            !.wasDeleted = WasDeleted(sha)]]
    /\ UNCHANGED StoreOther

\* DeleteNote: what it returns for a failed `git notes remove`.
DeleteNoteErr(stderr, err) ==
    IF Contains(stderr, "object has no note") \/ HasExitCode(err, 1)
    THEN Nil
    ELSE Wrap("delete", err)

\* DeleteNote(namespace, sha)
DeleteNoteText(sha) ==
    LET v == validateCommitSHA(sha)
        call == [NoStoreCall EXCEPT !.op = "DeleteNote", !.sha = sha]
    IN /\ IF sha = ""
          THEN store' = [store EXCEPT !.last = [call EXCEPT !.err = Returned(NewErr("empty_sha"))]]
          ELSE IF v.err.failed
          THEN store' = [store EXCEPT
                           !.last = [call EXCEPT !.err = Returned(v.err), !.cmds = v.cmds]]
          ELSE LET cmds == v.cmds \o <<"notes remove">>
                   c == Resolved(sha)
               IN \E out \in NotesRemove(c) :
                    LET err == IF out.failed THEN DeleteNoteErr(out.text, out) ELSE Nil
                        notes == IF out.failed THEN store.notes
                                 ELSE [store.notes EXCEPT ![c] = NoNote]
                    IN store' = [store EXCEPT
                                   !.notes = notes,
                                   !.written[c] = IF err.failed THEN @ ELSE NoNote,
                                   !.replaced[c] = IF err.failed THEN @ ELSE FALSE,
                                   !.deleted[c] = IF err.failed THEN @ ELSE TRUE,
                                   !.viaExpr[c] = IF err.failed THEN @ ELSE FALSE,
                                   !.last = [call EXCEPT
                                               !.err = Returned(err), !.cmds = cmds,
                                               !.fault = IsFault(out), !.key = c,
                                               !.changed = (notes # store.notes),
                                               !.wasDeleted = store.deleted[c]]]
       /\ UNCHANGED StoreOther

\* A commit is made or checked out: HEAD moves to c.
MoveHead(c) ==
    /\ c # store.head
    /\ store' = [store EXCEPT !.head = c,
                               !.last = [NoStoreCall EXCEPT !.op = "MoveHead"]]
    /\ UNCHANGED StoreOther

\* Revisions and contents for the calls made while HEAD moves.
HeadRevisions == {"", "c2"} \cup SymbolicRefs
HeadValues == {Text("", "a", 1, ""), Text("", "b", 1, ""), Text("", "a", 1, " ")}

----------------------------------------------------------------------------
(* GetNoteList *)

ListCommits == {"c1", "c2", "c3", "c4"}

\* %ct of the commits: c2 and c3 were committed within the same second.
CommitTime(c) == IF c = "c1" THEN 1 ELSE IF c = "c4" THEN 3 ELSE 2

\* `git notes list` run outside any repository.
NotARepository == GitErr(128, {"not a git repository"})

ListFaults == NotesFaults \cup {NotARepository}

Range(s) == {s[j] : j \in 1..Len(s)}

\* The orders in which a backend command may print the elements of S.
Orderings(S) == {s \in [1..Cardinality(S) -> S] : Range(s) = S}

\* return nil, err
NilList == [isNil |-> TRUE, shas |-> <<>>]

EmptyListAsNil == [isNil |-> TRUE, shas |-> <<>>]

\* return []string{}, nil
EmptyList == [isNil |-> FALSE, shas |-> <<>>]

NoListCall == [op |-> "none", sha |-> "", err |-> Returned(Nil), isNil |-> FALSE,
               shas |-> <<>>, listFault |-> FALSE, showFault |-> FALSE, cmds |-> 0,
               out |-> Nil]

\* The namespace: whether its ref exists, and the commits that have a note.
NoListing == [refExists |-> FALSE, noted |-> {}, last |-> NoListCall]

ListOther == <<localRef, remoteRef, remoteTrackingRef, mergeInProgress, trackNotes,
               SyncCaller, callers, bulk, store, stream, ctxCall, applied>>

\* SetNote(namespace, c, value) on a commit: `git notes add -f -m` writes the
\* note, or removes it when the message is empty after the clean-up.
ListSetNote(c, value) ==
    /\ \E out \in NotesAdd :
         listing' = [listing EXCEPT
            !.refExists = @ \/ (~out.failed /\ Stripspace(value) # EmptyText),
            !.noted = IF out.failed THEN @
                      ELSE IF Stripspace(value) = EmptyText THEN @ \ {c}
                      ELSE @ \cup {c},
            !.last = [NoListCall EXCEPT !.op = "SetNote", !.sha = c,
                                        !.err = Returned(IF out.failed THEN Wrap("set", out)
                                                         ELSE Nil)]]
    /\ UNCHANGED ListOther

\* DeleteNote(namespace, c) on a commit.
ListDeleteNote(c) ==
    /\ \E out \in (IF c \in listing.noted THEN {Nil} ELSE {HasNoNote}) \cup NotesFaults :
         listing' = [listing EXCEPT
            !.noted = IF out.failed THEN @ ELSE @ \ {c},
            !.last = [NoListCall EXCEPT
                        !.op = "DeleteNote", !.sha = c, !.out = out,
                        !.err = Returned(IF out.failed THEN DeleteNoteErr(out.text, out)
                                         ELSE Nil)]]
    /\ UNCHANGED ListOther

\* `git notes list`: one line per note; nothing when the ref is absent or empty.
NotesList == {Nil} \cup ListFaults

\* `git show -s --format=%H %ct <sha>...`
ShowTimestamps == {Nil} \cup NotesFaults

\* GetNoteList: what it returns for a failed `git notes list`.
GetNoteListErr(err) ==
    IF \/ Contains(err.text, "bad notes ref")
       \/ Contains(err.text, "does not exist")
       \/ Contains(err.text, "no notes found")
       \/ HasExitCode(err, 1)
    THEN Nil
    ELSE Wrap("list", err)

LessAscending(a, b) == a.Timestamp < b.Timestamp

\* The less function given to sort.Slice.
Less(a, b) == a.Timestamp > b.Timestamp

\* sort.Slice on a short slice is an insertion sort: each element moves left
\* while it is less than its left neighbour.
RECURSIVE InsertLeft(_, _)
InsertLeft(s, x) ==
    IF s = <<>> THEN <<x>>
    ELSE IF Less(x, s[Len(s)])
    THEN Append(InsertLeft(SubSeq(s, 1, Len(s) - 1), x), s[Len(s)])
    ELSE Append(s, x)

RECURSIVE SortSlice(_)
SortSlice(s) ==
    IF s = <<>> THEN <<>>
    ELSE InsertLeft(SortSlice(SubSeq(s, 1, Len(s) - 1)), s[Len(s)])

\* commitsWithNotes for the lines of `git show`, sorted, and their Sha fields.
SortedShas(commitShas) ==
    LET commitsWithNotes ==
            [j \in 1..Len(commitShas) |->
               [Sha |-> commitShas[j], Timestamp |-> CommitTime(commitShas[j])]]
        sorted == SortSlice(commitsWithNotes)
    IN [j \in 1..Len(sorted) |-> sorted[j].Sha]

\* One `git show -s --format=%ct <sha>` for each line of `git notes list`.
ShowCommandsPerKey(commitShas) == Len(commitShas)

\* The executeGitCommand calls that get the timestamps of commitShas: the one
\* `git show` that is given all of them as arguments.
ShowCommands(commitShas) == 1

\* GetNoteList(namespace); cmds counts its executeGitCommand calls, `git notes
\* list` being the first.
GetNoteList ==
    /\ LET call == [NoListCall EXCEPT !.op = "GetNoteList", !.cmds = 1]
           Give(c, res, err) == [c EXCEPT !.isNil = res.isNil, !.shas = res.shas,
                                          !.err = Returned(err)]
       IN \E out \in NotesList :
            IF out.failed
            THEN listing' = [listing EXCEPT
                    !.last = Give([call EXCEPT !.listFault = TRUE, !.out = out],
                                  IF GetNoteListErr(out).failed THEN NilList ELSE EmptyList,
                                  GetNoteListErr(out))]
            ELSE IF listing.noted = {}
            THEN listing' = [listing EXCEPT !.last = Give(call, EmptyList, Nil)]
            ELSE \E commitShas \in Orderings(listing.noted), show \in ShowTimestamps :
                   LET shown == [call EXCEPT !.cmds = @ + ShowCommands(commitShas)]
                   IN IF show.failed
                      THEN listing' = [listing EXCEPT
                              !.last = Give([shown EXCEPT !.showFault = TRUE], NilList,
                                            Wrap("timestamps", show))]
                      ELSE listing' = [listing EXCEPT
                              !.last = Give(shown, [isNil |-> FALSE,
                                                    shas |-> SortedShas(commitShas)], Nil)]
    /\ UNCHANGED ListOther

\* Contents SetNote is called with here: a text, and one of whitespace only.
ListValues == {Text("", "a", 1, ""), Text(" ", "a", 0, "")}

----------------------------------------------------------------------------
(* The stream decoder of GetNoteJSON *)

\* The longest content, in tokens, apart from the ones around MaxJSONObjects.
MaxTokens == 3

\* What a content is made of: a JSON document, white space, bytes that begin no
\* JSON value, a document cut short by the end of the content, a closing
\* brace or bracket.
Closers == {"}", "]"}
Tokens == JSONValues \cup {" ", "garbage", "unterminated"} \cup Closers

Docs(n) == [j \in 1..n |-> "v1"]

\* Contents handed to the decoder: strings.TrimSpace(noteContent) is not "".
Contents ==
    {c \in UNION {[1..n -> Tokens] : n \in 1..MaxTokens} : \E i \in DOMAIN c : c[i] # " "}
    \cup {Docs(n) \o t : n \in {MaxJSONObjects, MaxJSONObjects + 1},
                          t \in {<<>>, <<"garbage">>, <<"}">>}}

NoStream == [pc |-> "idle", content |-> <<>>, pos |-> 1, results |-> <<>>,
             objectCount |-> 0, err |-> Nil, processed |-> 0]

StreamOther == <<localRef, remoteRef, remoteTrackingRef, mergeInProgress, trackNotes,
                 SyncCaller, callers, bulk, store, listing, ctxCall, applied>>

\* Decoder.peek: the position of the next byte that is not white space.
RECURSIVE peek(_, _)
peek(content, pos) ==
    IF pos <= Len(content) /\ content[pos] = " " THEN peek(content, pos + 1) ELSE pos

\* Decoder.More: err == nil && c != ']' && c != '}'
More(content, pos) ==
    LET p == peek(content, pos)
    IN p <= Len(content) /\ content[p] \notin Closers

ObjectCountAbove(objectCount) == objectCount > MaxJSONObjects

\* objectCount >= MaxJSONObjects
ObjectCountReached(objectCount) == objectCount >= MaxJSONObjects

\* json.NewDecoder(strings.NewReader(noteContent))
NewDecoder(content) ==
    /\ stream.pc = "idle"
    /\ stream' = [NoStream EXCEPT !.pc = "more", !.content = content]
    /\ UNCHANGED StreamOther

\* One turn of `for decoder.More()`: the test of the loop, the limit, and Decode.
\* processed is the count the returned error names.
DecodeNext ==
    /\ stream.pc = "more"
    /\ LET p == peek(stream.content, stream.pos)
       IN IF ~More(stream.content, stream.pos)
          THEN stream' = [stream EXCEPT !.pc = "done", !.pos = p]
          ELSE IF ObjectCountReached(stream.objectCount)
          THEN stream' = [stream EXCEPT !.pc = "done", !.pos = p,
                                        !.err = Returned(NewErr("too_many_objects")),
                                        !.processed = MaxJSONObjects]
          ELSE IF stream.content[p] \in JSONValues
          THEN stream' = [stream EXCEPT !.pos = p + 1,
                                        !.results = Append(@, stream.content[p]),
                                        !.objectCount = @ + 1]
          ELSE stream' = [stream EXCEPT !.pc = "done", !.pos = p,
                                        !.err = Returned(NewErr("decode")),
                                        !.processed = Len(stream.results)]
    /\ UNCHANGED StreamOther

----------------------------------------------------------------------------
(* GetNoteWithContext under cancellation *)

\* pc is the backend call in flight: "validate" (rev-parse --verify), "head"
\* (rev-parse HEAD) or "show" (notes show). ctxDone tells that ctx.Err() is not
\* nil, and during is the call that was in flight when the context was cancelled;
\* commitSha is what rev-parse HEAD gave for an empty revision.
NoCtxCall == [pc |-> "idle", sha |-> "", commitSha |-> "", ctxDone |-> FALSE,
              during |-> "none", err |-> Returned(Nil), returned |-> FALSE,
              read |-> FALSE]

CtxOther == <<localRef, remoteRef, remoteTrackingRef, mergeInProgress, trackNotes,
              SyncCaller, callers, bulk, store, listing, stream, applied>>

\* `git notes show <commitSha>` for the call in flight: the revision is resolved
\* by the backend when the command runs.
CtxNotesShow ==
    LET c == IF ctxCall.sha = "" THEN ctxCall.commitSha ELSE Resolved(ctxCall.sha)
    IN IF c \in Commits THEN NotesShowText(c) ELSE NotesFaults

\* ctx.Err() of a cancelled context.
Canceled == NewErr("context.Canceled")

\* fmt.Errorf("...: %w", err): errors.Is still finds the cancellation inside.
WrapIs(kind, err) == IF err.kind = Canceled.kind THEN err ELSE Wrap(kind, err)

\* What exec.CommandContext's Run returns for a command whose own outcomes are
\* outs: with a context that is done before the start, the context's error; with
\* a context cancelled in flight, the kill, unless the process had exited by
\* itself; else the command's own outcome.
Killed == [failed |-> TRUE, kind |-> "git", code |-> 0 - 1, text |-> {"signal: killed"}]
RunContext(outs) ==
    IF ~ctxCall.ctxDone THEN outs
    ELSE IF ctxCall.during = ctxCall.pc THEN outs \cup {Killed}
    ELSE {Killed}

\* executeGitCommandContext: the error it returns for the outcome of Run.
CommandErr(out) ==
    IF ~out.failed THEN Nil
    ELSE IF ctxCall.ctxDone THEN WrapIs("command_cancelled", Canceled)
    ELSE out

\* GetNoteWithContext(ctx, namespace, sha) is called; an unsafe revision is
\* refused at once, any other starts the first backend call.
CtxGetNote(sha, done) ==
    /\ ctxCall.pc = "idle"
    /\ ~ctxCall.returned
    /\ LET call == [NoCtxCall EXCEPT !.sha = sha, !.ctxDone = done]
       IN IF ~isSafeRevisionSpec(sha)
          THEN ctxCall' = [call EXCEPT !.err = Returned(NewErr("InvalidCommitSha")),
                                       !.returned = TRUE]
          ELSE ctxCall' = [call EXCEPT !.pc = IF sha = "" THEN "head" ELSE "validate"]
    /\ UNCHANGED CtxOther

\* cancel() of the context, or its deadline, while a backend call is in flight.
CtxCancel ==
    /\ ctxCall.pc \in {"validate", "head", "show"}
    /\ ~ctxCall.ctxDone
    /\ ctxCall' = [ctxCall EXCEPT !.ctxDone = TRUE, !.during = ctxCall.pc]
    /\ UNCHANGED CtxOther

\* validateCommitSHA returns: rev-parse --verify runs without the context.
CtxValidated ==
    /\ ctxCall.pc = "validate"
    /\ LET v == validateCommitSHA(ctxCall.sha)
       IN IF v.err.failed
          THEN ctxCall' = [ctxCall EXCEPT !.pc = "idle", !.err = Returned(v.err),
                                          !.returned = TRUE]
          ELSE ctxCall' = [ctxCall EXCEPT !.pc = "show"]
    /\ UNCHANGED CtxOther

\* rev-parse HEAD returns.
CtxHeadResolved ==
    /\ ctxCall.pc = "head"
    /\ \E out \in RunContext({Nil} \cup NotesFaults) :
         LET err == CommandErr(out)
         IN IF err.failed
            THEN ctxCall' = [ctxCall EXCEPT
                               !.pc = "idle",
                               !.err = Returned(WrapIs("resolve_head", err)),
                               !.returned = TRUE]
            ELSE ctxCall' = [ctxCall EXCEPT !.pc = "show", !.commitSha = store.head]
    /\ UNCHANGED CtxOther

\* notes show returns.
CtxShown ==
    /\ ctxCall.pc = "show"
    /\ \E out \in RunContext(CtxNotesShow) :
         LET err == CommandErr(out)
         IN ctxCall' = [ctxCall EXCEPT
                          !.pc = "idle",
                          !.err = Returned(IF ~err.failed THEN Nil
                                           ELSE IF ctxCall.ctxDone THEN Canceled
                                           ELSE GetNoteErr(err)),
                          !.read = ~err.failed,
                          !.returned = TRUE]
    /\ UNCHANGED CtxOther

\* Revisions GetNoteWithContext is called with, and the content of the notes.
CtxRevisions == Revisions \cup {""} \cup SymbolicRefs
CtxValue == Text("", "a", 1, "")

----------------------------------------------------------------------------
(* Ref names and the classification of failures, as functions of their input *)

MaxNamespaceLen == 3

\* A namespace is a string; it is modelled as the sequence of the pieces it is
\* made of. No piece can be put together from the others, and only the piece
\* "refs/notes/" makes a string begin with "refs/notes/".
NamespacePieces == {"refs/notes/", "refs/notes", "commits", "x"}
Namespaces == UNION {[1..n -> NamespacePieces] : n \in 0..MaxNamespaceLen}

\* strings.HasPrefix(s, prefix)
HasPrefix(s, prefix) ==
    Len(s) >= Len(prefix) /\ SubSeq(s, 1, Len(prefix)) = prefix

formatNamespaceRefPrepend(namespace) ==
    IF namespace = <<>> THEN <<"refs/notes/", "commits">>
    ELSE <<"refs/notes/">> \o namespace

formatNamespaceRef(namespace) ==
    IF namespace = <<>> THEN <<"refs/notes/", "commits">>
    ELSE IF HasPrefix(namespace, <<"refs/notes/">>) THEN namespace
    ELSE <<"refs/notes/">> \o namespace

\* The operations that test the text of a failure, and the failures they are
\* given here: an exit code and a diagnostic.
Classifiers == {"GetNote", "DeleteNote", "GetNoteList", "FetchNotes",
                "fetch", "merge", "PushNotesWithRetry"}
Diagnostics == {{"rejected"}, {"object has no note"}, {"does not exist"},
                {"no note found", "no note found for object"},
                {"couldn't find remote ref"}, {"already up to date"},
                {"conflict"}, {"other"}}
ClassifiedFailures == {GitErr(c, t) : c \in {1, 2, 128}, t \in Diagnostics}

\* What the operation makes of a failure of its backend command.
Classified(op, out) ==
    CASE op = "GetNote" -> GetNoteErr(out).kind
      [] op = "DeleteNote" -> DeleteNoteErr(out.text, out).kind
      [] op = "GetNoteList" -> GetNoteListErr(out).kind
      [] op = "FetchNotes" -> IF FetchNotesRefAbsent(out) THEN "nil" ELSE "fetch"
      [] op = "fetch" -> IF PushFetchRefAbsent(out) THEN "nil" ELSE "fetch"
      [] op = "merge" -> IF MergeUpToDate(out) THEN "nil" ELSE MergeErrKind(out)
      [] op = "PushNotesWithRetry" -> IF IsPushRetryable(out) THEN "retry" ELSE "return"

\* strings.ToUpper of a diagnostic.
ToUpper(text) ==
    {CHOOSE q \in {"REJECTED", "OBJECT HAS NO NOTE", "DOES NOT EXIST", "NO NOTE FOUND",
                   "NO NOTE FOUND FOR OBJECT", "COULDN'T FIND REMOTE REF",
                   "ALREADY UP TO DATE", "CONFLICT", "other"} : Lower(q) = p : p \in text}

NoApplied == [fn |-> "none", namespace |-> <<>>, ref |-> <<>>, again |-> <<>>,
              out |-> Nil, class |-> "", upper |-> ""]

AppliedOther == <<localRef, remoteRef, remoteTrackingRef, mergeInProgress, trackNotes,
                  SyncCaller, callers, bulk, store, listing, stream, ctxCall>>

\* ref := formatNamespaceRef(namespace), the first step of every operation.
FormatNamespaceRef(namespace) ==
    /\ applied' = [NoApplied EXCEPT !.fn = "formatNamespaceRef",
                                    !.namespace = namespace,
                                    !.ref = formatNamespaceRef(namespace)]
    /\ UNCHANGED AppliedOther

\* An operation is called with the ref name of an earlier call as its namespace.
FormatRef ==
    /\ applied.fn = "formatNamespaceRef"
    /\ applied' = [applied EXCEPT !.fn = "formatNamespaceRef(ref)",
                                  !.again = formatNamespaceRef(applied.ref)]
    /\ UNCHANGED AppliedOther

\* The backend command of op fails with out; and what op makes of the same
\* failure when the diagnostic is in capital letters.
Classify(op, out) ==
    /\ applied' = [NoApplied EXCEPT
                     !.fn = op, !.out = out,
                     !.class = Classified(op, out),
                     !.upper = Classified(op, [out EXCEPT !.text = ToUpper(out.text)])]
    /\ UNCHANGED AppliedOther

----------------------------------------------------------------------------
(* The specification *)

\* No call is running and no remote-tracking ref has been fetched.
InitIdle ==
    /\ remoteTrackingRef = NoRef
    /\ mergeInProgress = FALSE
    /\ trackNotes \in BOOLEAN
    /\ pc = "idle"
    /\ attempt = 0
    /\ maxRetries = DefaultRetryAttempts
    /\ remoteName = "origin"
    /\ remoteNotesExist = FALSE
    /\ attemptErr = Nil
    /\ ret = Returned(Nil)
    /\ last = NoCall
    /\ callers = [g \in Goroutines |-> IdleCaller]
    /\ bulk = NoBulk
    /\ store = NoStore
    /\ listing = NoListing
    /\ stream = NoStream
    /\ ctxCall = NoCtxCall
    /\ applied = NoApplied

Init ==
    /\ localRef = NoRef
    /\ remoteRef = NoRef
    /\ InitIdle

Next ==
    \/ \E k \in Keys, v \in LocalLines : SetNote(k, v)
    \/ \E k \in Keys : DeleteNote(k)
    \/ \E k \in Keys, v \in RemoteLines : RemoteWrite(k, v)
    \/ \E name \in RemoteNames : FetchNotes(name)
    \/ \E name \in RemoteNames, n \in RetryChoices : PushNotesWithRetry(name, n)
    \/ FetchStep
    \/ MergeStep
    \/ PushStep

Spec == Init /\ [][Next]_vars

\* Two goroutines call PushNotes on a repository whose two sides hold a note or
\* no ref at all.
InitConcurrent ==
    /\ localRef \in {NoRef, Commit({}, [EmptyTree EXCEPT !["A"] = {"l1"}])}
    /\ remoteRef \in {NoRef, Commit({}, [EmptyTree EXCEPT !["A"] = {"r1"}])}
    /\ InitIdle

NextConcurrent ==
    \E g \in Goroutines :
       \/ GoPushNotes(g)
       \/ GoAbort(g)
       \/ GoFetch(g)
       \/ GoSnapshot(g)
       \/ GoMerge(g)
       \/ GoRollback(g)
       \/ GoPush(g)

SpecConcurrent == InitConcurrent /\ [][NextConcurrent]_vars

InitBulk == Init /\ ~trackNotes

NextBulk ==
    \/ \E list \in BulkInputs : GetNotesBulk(list)
    \/ BulkValidate
    \/ BulkDispatch
    \/ \E sha \in BulkRefs : BulkAcquire(sha)
    \/ \E sha \in BulkRefs : BulkRead(sha)
    \/ BulkWrite
    \/ BulkReturn

SpecBulk == InitBulk /\ [][NextBulk]_vars

\* The steps of a running GetNotesBulk call: the scheduler runs the caller and
\* every goroutine that can take a step, and every backend read returns.
BulkStep ==
    \/ BulkValidate
    \/ BulkDispatch
    \/ \E sha \in BulkRefs : BulkAcquire(sha)
    \/ \E sha \in BulkRefs : BulkRead(sha)
    \/ BulkWrite
    \/ BulkReturn

SpecBulkFair == SpecBulk /\ WF_vars(BulkStep)

InitStore == Init /\ ~trackNotes

NextStore ==
    \/ \E sha \in StoreRevisions, value \in Values : SetNoteText(sha, value)
    \/ \E sha \in StoreRevisions : GetNoteText(sha)
    \/ \E sha \in StoreRevisions : DeleteNoteText(sha)
    \/ \E sha \in StoreRevisions, v \in JSONValues : SetNoteJSON(sha, v)
    \/ \E sha \in StoreRevisions : GetNoteJSON(sha)

SpecStore == InitStore /\ [][NextStore]_vars

NextHead ==
    \/ \E c \in Commits : MoveHead(c)
    \/ \E sha \in HeadRevisions, value \in HeadValues : SetNoteText(sha, value)
    \/ \E sha \in HeadRevisions : GetNoteText(sha)
    \/ \E sha \in HeadRevisions : DeleteNoteText(sha)
    \/ \E sha \in HeadRevisions, v \in JSONValues : SetNoteJSON(sha, v)
    \/ \E sha \in HeadRevisions : GetNoteJSON(sha)

SpecHead == InitStore /\ [][NextHead]_vars

NextDecode ==
    \/ \E content \in Contents : NewDecoder(content)
    \/ DecodeNext

SpecDecode == InitStore /\ [][NextDecode]_vars

NextCancel ==
    \/ \E c \in Commits : MoveHead(c)
    \/ \E c \in Commits : SetNoteText(c, CtxValue)
    \/ \E sha \in CtxRevisions, done \in BOOLEAN : CtxGetNote(sha, done)
    \/ CtxCancel
    \/ CtxValidated
    \/ CtxHeadResolved
    \/ CtxShown

SpecCancel == InitStore /\ [][NextCancel]_vars

NextApplied ==
    \/ \E namespace \in Namespaces : FormatNamespaceRef(namespace)
    \/ FormatRef
    \/ \E op \in Classifiers, out \in ClassifiedFailures : Classify(op, out)

SpecApplied == InitStore /\ [][NextApplied]_vars

NextList ==
    \/ \E c \in ListCommits, value \in ListValues : ListSetNote(c, value)
    \/ \E c \in ListCommits : ListDeleteNote(c)
    \/ GetNoteList

SpecList == InitStore /\ [][NextList]_vars

----------------------------------------------------------------------------
(* Properties of the synchronisation protocol *)

PushReturned == pc = "idle" /\ last.op = "PushNotes"

FetchReturned == pc = "idle" /\ last.op = "FetchNotes"

\* The push step of the last attempt succeeds and the call returns nil.
PushSucceeds == pc = "push" /\ pc' = "idle" /\ ~ret'.failed

\* A merge step ends the attempt with a failure.
MergeFails == pc = "merge" /\ pc' \in {"idle", "fetch"}

Diverged(l, r) == l.exists /\ r.exists /\ l \notin History(r) /\ r \notin History(l)

\* result holds what side changed since the common ancestor of side and other.
KeepsChanges(side, other, result) ==
    LET b == MergeBase(side, other)
    IN \A k \in Keys : side.tree[k] # b.tree[k] => side.tree[k] \subseteq result.tree[k]

\* C1 as stated: after a successful PushNotes the remote's ref holds, for every
\* key, every line of the note either side held before the push.
C1_Original ==
    [][PushSucceeds =>
         \A k \in Keys :
            (last.preLocal.tree[k] \cup remoteRef.tree[k]) \subseteq remoteRef'.tree[k]]_vars

\* C1 amended: after a successful PushNotes the remote's ref is the local ref and
\* holds, for every key, the note of each side that changed the key since the two
\* refs' common ancestor (every note, when they share no history).
C1_PushKeepsBothSidesChanges ==
    [][PushSucceeds =>
         /\ remoteRef' = localRef
         /\ KeepsChanges(last.preLocal, remoteRef, remoteRef')
         /\ KeepsChanges(remoteRef, last.preLocal, remoteRef')]_vars

\* C1 witness: a push that merged diverged refs with different notes on one key
\* returned nil, and the remote's note has the lines of both.
C1_Witness ==
    /\ PushReturned /\ ~ret.failed /\ last.remoteWrites = "none"
    /\ Diverged(last.preLocal, last.seenRemote)
    /\ \E k \in Keys :
         /\ last.preLocal.tree[k] # {} /\ last.seenRemote.tree[k] # {}
         /\ last.preLocal.tree[k] # last.seenRemote.tree[k]
         /\ (last.preLocal.tree[k] \cup last.seenRemote.tree[k]) \subseteq remoteRef.tree[k]

\* C2 as stated: a PushNotesWithRetry(remote, 3) of local notes to a remote that
\* had no ref yet, during which another writer pushed one note between the first
\* fetch and the first push and nothing else went wrong, returns nil and leaves
\* both writers' content in the remote's note for that key.
C2_Original ==
    (/\ PushReturned /\ last.n = 3 /\ last.remote \in Remotes
     /\ HasNotes(last.preLocal) /\ ~last.remoteHadRef
     /\ last.fault = "none" /\ last.remoteWrites = "one")
    => /\ ~ret.failed
       /\ last.raceLine \in remoteRef.tree[last.raceKey]
       /\ last.preLocal.tree[last.raceKey] \subseteq remoteRef.tree[last.raceKey]

\* C3: when the merge step ends an attempt with a failure, the local ref is what
\* it was before the merge (the same commit, or still absent) and no merge is in
\* progress.
C3_MergeFailureRestoresLocalRef ==
    [][MergeFails => (localRef' = localRef /\ ~mergeInProgress')]_vars

\* C3 witness: a push returned a merge failure with a local ref that differs
\* from the remote-tracking ref it failed to merge.
C3_Witness ==
    /\ PushReturned /\ ret.kind \in {"merge", "merge_conflict"}
    /\ localRef.exists /\ remoteTrackingRef.exists /\ localRef # remoteTrackingRef
    /\ localRef = last.preLocal

\* C4 as stated: a failed merge step is never followed by another attempt of the
\* same call, whatever its diagnostic text.
C4_Original == attemptErr.failed => attemptErr.kind \notin {"merge", "merge_conflict"}

AllAttemptsConflicted ==
    PushReturned /\ last.n >= 1 /\ last.attempts = last.n /\ last.allConflict

\* C5 as stated: when each of the N >= 1 attempts ends in a rejected push, the call
\* returns the "push failed after N attempts" error.
C5_Original == AllAttemptsConflicted => ret.kind = "push_failed_after_attempts"

\* C5 amended: when each of the N >= 1 attempts ends in a rejected push, the call
\* returns the push error of the last attempt; "push failed after N attempts" is
\* returned only for N <= 0.
C5_ReturnsLastPushError ==
    /\ AllAttemptsConflicted => (ret.failed /\ ret.kind = "push")
    /\ (PushReturned /\ ret.kind = "push_failed_after_attempts") => last.n <= 0

\* C5 witness: a PushNotes call whose three attempts all ended in a rejected push.
C5_Witness == AllAttemptsConflicted /\ last.n = 3 /\ ret.failed

NothingInterfered == last.fault = "none" /\ last.remoteWrites = "none"

\* C6 as stated: PushNotes with no ref on either side returns nil and leaves the
\* ref existing locally and on the remote.
C6_Original ==
    (/\ PushReturned /\ last.n = DefaultRetryAttempts /\ last.remote \in Remotes
     /\ NothingInterfered /\ ~last.preLocal.exists /\ ~last.seenRemote.exists)
    => (~ret.failed /\ localRef.exists /\ remoteRef.exists)

\* The local replica had removed the note of k from what the remote holds.
DeletedLocally(k) ==
    /\ last.seenRemote \in last.preLocal.parents
    /\ last.preLocal.tree[k] = {} /\ last.seenRemote.tree[k] # {}

\* C7: a push of local notes to a remote without the ref returns nil and leaves the
\* remote's ref at the local ref; a note then deleted locally is back, with
\* exactly the pushed content, after a FetchNotes.
C7_PushToRemoteWithoutRef ==
    /\ (/\ PushReturned /\ last.n >= 1 /\ last.remote \in Remotes /\ NothingInterfered
        /\ HasNotes(last.preLocal) /\ ~last.seenRemote.exists)
       => (~ret.failed /\ remoteRef = last.preLocal /\ localRef = last.preLocal)
    /\ \A k \in Keys :
         (FetchReturned /\ ~ret.failed /\ last.fault # "backend" /\ DeletedLocally(k))
         => (GetNote(k).found /\ GetNote(k).content = last.seenRemote.tree[k])

\* C7 witness: a note the local replica pushed and then deleted is read back after
\* a FetchNotes.
C7_Witness ==
    /\ FetchReturned /\ ~ret.failed /\ last.fault # "backend"
    /\ \E k \in Keys : DeletedLocally(k) /\ GetNote(k).content = {"l1"}

\* C8 as stated: after FetchNotes returns nil against a remote that has the ref, the
\* local ref equals the remote's ref.
C8_Original ==
    (FetchReturned /\ ~ret.failed /\ last.remote \in Remotes /\ last.seenRemote.exists)
    => localRef = last.seenRemote

C10_PushToNonExistentRemoteFails ==
    (PushReturned /\ last.n >= 1 /\ last.remote = "nonexistentremote")
    => (ret.failed /\ ret.kind = "push")

\* C10 witness: such a call returned, with a note set locally.
C10_Witness ==
    /\ PushReturned /\ last.n = DefaultRetryAttempts /\ last.remote = "nonexistentremote"
    /\ HasNotes(localRef) /\ ret.failed

----------------------------------------------------------------------------
(* Properties of concurrent PushNotes calls *)

\* The attempt of goroutine g has run its first step and not yet its last.
InAttempt(g) == callers[g].pc \in {"fetch", "snapshot", "merge", "rollback", "push"}

\* Goroutine g runs a step of an attempt.
StepOf(g) == callers[g].pc # "idle" /\ callers'[g] # callers[g]

\* C11 as stated: of two PushNotes calls running concurrently in one process for
\* the same namespace and remote, no step of one attempt executes between the
\* first and the last step of another attempt.
C11_Original ==
    [][\A p, q \in Goroutines : (p # q /\ InAttempt(p)) => ~StepOf(q)]_vars

----------------------------------------------------------------------------
(* Properties of GetNotesBulk *)

BulkReturned == bulk.pc = "returned"

InputRefs == {bulk.input[j] : j \in 1..Len(bulk.input)}

\* C12 as stated: when GetNotesBulk returns, every distinct ref of the input is a
\* key of exactly one of the two maps and neither map has another key.  Stated
\* here for the calls whose dispatch loop never read the error map while a
\* goroutine was writing.
C12_Original ==
    (BulkReturned /\ ~bulk.raced)
    => /\ DOMAIN bulk.results \cup DOMAIN bulk.errors = InputRefs
       /\ DOMAIN bulk.results \cap DOMAIN bulk.errors = {}

\* C13: at every moment of a GetNotesBulk call at most 10 single-note reads are
\* in flight, however many refs the input has.
C13_AtMostTenReadsInFlight == ReadsInFlight <= BulkConcurrency /\ BulkConcurrency = 10

\* C13 witness: an input of more than 10 refs has 10 reads in flight and a
\* goroutine waiting for a slot.
C13_Witness ==
    /\ Len(bulk.input) > BulkConcurrency
    /\ ReadsInFlight = BulkConcurrency
    /\ SumOver(bulk.waiting, BulkRefs) > 0

\* A ref that is unsafe as a revision or resolves to no object.
FailsValidation(sha) == ~isSafeRevisionSpec(sha) \/ ~RevParseVerify(sha)

ValidationDone == bulk.pc \notin {"idle", "validate"}

\* C14: in GetNotesBulk every ref that fails validation has its validation error
\* in the error map once the validation loop is over, and so when the call
\* returns; `git notes show` is never run for it; and no goroutine is started
\* while the validation loop runs.
C14_InvalidRefsNeverRead ==
    /\ \A sha \in InputRefs :
          FailsValidation(sha)
          => /\ sha \notin bulk.shown
             /\ ValidationDone => /\ sha \in DOMAIN bulk.errors
                                  /\ bulk.errors[sha].kind = "InvalidCommitSha"
    /\ bulk.pc = "validate"
       => /\ SumOver(bulk.waiting, BulkRefs) = 0
          /\ ReadsInFlight = 0
          /\ bulk.shown = {}

\* C14 witness: a call with a ref that fails validation and a ref that was read
\* returned.
C14_Witness ==
    /\ BulkReturned
    /\ \E sha \in InputRefs : FailsValidation(sha)
    /\ bulk.shown # {}

----------------------------------------------------------------------------
(* Properties of the store operations *)

\* The last call was op on a revision that resolves to a commit, and every
\* backend command it ran worked as documented.
StoreCalled(op) ==
    /\ store.last.op = op
    /\ Resolved(store.last.sha) \in Commits
    /\ ~store.last.fault

LastKey == Resolved(store.last.sha)

\* C15 as stated: for every content of at most MaxNoteSize bytes, leading or
\* trailing whitespace included, a SetNote that succeeded followed by GetNote of
\* the same ref, with no write to the key in between, returns the content.
C15_Original ==
    (StoreCalled("GetNote") /\ store.written[LastKey] # NoNote
       /\ Size(store.written[LastKey]) <= MaxNoteSize)
    => (~store.last.err.failed /\ store.last.out = store.written[LastKey])

\* The note of the last call's key was written by a SetNote or SetNoteJSON that
\* found a note there, and no call has written the key since.
Overwritten == store.written[LastKey] # NoNote /\ store.replaced[LastKey]

\* After SetNoteJSON(v1) then SetNoteJSON(v2) on a commit, GetNoteJSON of that
\* commit returns [v2].
OverwriteJSON ==
    (StoreCalled("GetNoteJSON") /\ store.last.sha \in Commits
       /\ Overwritten /\ store.written[LastKey].body \in JSONValues)
    => (~store.last.err.failed /\ store.last.items = <<store.written[LastKey].body>>)

\* C16 as stated: SetNote is a full overwrite.  After SetNote(ref, c1) then
\* SetNote(ref, c2), GetNote(ref) returns c2 and nothing of c1; after
\* SetNoteJSON(v1) then SetNoteJSON(v2), GetNoteJSON returns [v2].
C16_Original ==
    /\ (StoreCalled("GetNote") /\ Overwritten)
       => (~store.last.err.failed /\ store.last.out = store.written[LastKey])
    /\ OverwriteJSON

\* The last call was SetNote with a content of more than MaxNoteSize bytes.
OversizeSetNote == store.last.op = "SetNote" /\ Size(store.last.value) > MaxNoteSize

\* The ref of the last call is unsafe as a revision or resolves to no object.
BadRef == store.last.sha # "" /\ FailsValidation(store.last.sha)

\* C17 as stated: SetNote with a content longer than MaxNoteSize returns
\* NoteSizeExceeded and leaves every note unchanged; a content of exactly
\* MaxNoteSize bytes is not rejected for its size.
C17_Original ==
    /\ OversizeSetNote
       => (store.last.err.kind = "NoteSizeExceeded" /\ ~store.last.changed)
    /\ (store.last.op = "SetNote" /\ Size(store.last.value) = MaxNoteSize)
       => store.last.err.kind # "NoteSizeExceeded"

\* C17, amended: SetNote with a content longer than MaxNoteSize fails and leaves
\* every note unchanged; it returns NoteSizeExceeded when the ref passes
\* validation and InvalidCommitSha when it does not.  A content of at most
\* MaxNoteSize bytes is never rejected for its size.
C17_OversizeRejected ==
    /\ OversizeSetNote
       => /\ store.last.err.failed /\ ~store.last.changed
          /\ store.last.err.kind = IF BadRef THEN "InvalidCommitSha" ELSE "NoteSizeExceeded"
    /\ (store.last.op = "SetNote" /\ Size(store.last.value) <= MaxNoteSize)
       => store.last.err.kind # "NoteSizeExceeded"

\* C17 witness: SetNote of an oversize content on a commit that has a note
\* returned NoteSizeExceeded.
C17_Witness ==
    /\ OversizeSetNote /\ store.last.err.kind = "NoteSizeExceeded"
    /\ store.last.sha \in Commits /\ store.notes[store.last.sha] # NoNote

\* A store operation called with a ref that begins with '-' or contains a NUL
\* byte returns InvalidCommitSha and has run no backend command.
UnsafeRefFailsFast ==
    (store.last.op # "none" /\ ~isSafeRevisionSpec(store.last.sha))
    => (store.last.err.kind = "InvalidCommitSha" /\ store.last.cmds = <<>>)

\* C18 as stated: SetNote with a content of more than MaxNoteSize bytes, and any
\* store operation with a ref that begins with '-' or contains a NUL byte,
\* returns its typed error and has run no backend command during the call.
C18_Original ==
    /\ OversizeSetNote
       => /\ store.last.err.kind \in {"NoteSizeExceeded", "InvalidCommitSha"}
          /\ store.last.cmds = <<>>
    /\ UnsafeRefFailsFast

\* C19: with a backend that works as documented, GetNote on a ref that resolves
\* to a commit without a note returns NoteNotFound, and GetNote on a ref that is
\* malformed or resolves to no object returns InvalidCommitSha.
C19_GetNoteErrorKinds ==
    (store.last.op = "GetNote" /\ ~store.last.fault)
    => /\ (LastKey \in Commits /\ store.notes[LastKey] = NoNote)
          => store.last.err.kind = "NoteNotFound"
       /\ BadRef => store.last.err.kind = "InvalidCommitSha"

\* C19 witness: GetNote on a commit whose note was deleted returned NoteNotFound.
C19_Witness ==
    /\ StoreCalled("GetNote") /\ store.last.wasDeleted
    /\ store.notes[LastKey] = NoNote
    /\ store.last.err.kind = "NoteNotFound"

\* C20 as stated: after a DeleteNote(ref) that returned nil, a second
\* DeleteNote(ref) returns nil and changes nothing, and GetNote(ref) returns
\* NoteNotFound; DeleteNote on a ref that resolves to no object returns the
\* error that names the ref.
C20_Original ==
    /\ (StoreCalled("DeleteNote") /\ store.last.wasDeleted)
       => (~store.last.err.failed /\ ~store.last.changed)
    /\ (StoreCalled("GetNote") /\ store.last.wasDeleted)
       => store.last.err.kind = "NoteNotFound"
    /\ (store.last.op = "DeleteNote" /\ BadRef)
       => store.last.err.kind = "InvalidCommitSha"

----------------------------------------------------------------------------
(* Properties of GetNoteList *)

\* The last call was GetNoteList and its backend commands worked.
Listed ==
    /\ listing.last.op = "GetNoteList"
    /\ ~listing.last.listFault /\ ~listing.last.showFault

\* C21: after any sequence of SetNote and DeleteNote, GetNoteList returns every
\* commit that has a note in the namespace, each exactly once and no other, and
\* of every adjacent pair the earlier entry's commit timestamp is greater than
\* or equal to the later entry's.
C21_ListsNotedKeysNewestFirst ==
    Listed
    => LET shas == listing.last.shas
       IN /\ ~listing.last.err.failed
          /\ Range(shas) = listing.noted
          /\ Len(shas) = Cardinality(listing.noted)
          /\ \A j \in 1..(Len(shas) - 1) : CommitTime(shas[j]) >= CommitTime(shas[j + 1])

\* C21 witness: GetNoteList returned three commits, two of them with the same
\* timestamp, while a fourth commit has no note.
C21_Witness ==
    /\ Listed /\ Len(listing.last.shas) = 3
    /\ {"c2", "c3"} \subseteq listing.noted

\* C22 as stated: GetNoteList returns an error, not an empty list, whenever
\* `git notes list` fails for a reason other than the namespace ref being
\* absent, for example when it is run outside any repository.
C22_Original == (listing.last.op = "GetNoteList" /\ listing.last.listFault)
                => listing.last.err.failed

\* C23: GetNoteList returns an empty, non-nil sequence and no error when the
\* namespace has no ref yet, and also when the ref exists but no commit has a
\* note.
C23_EmptyNamespaceListsEmpty ==
    (Listed /\ listing.noted = {})
    => /\ ~listing.last.err.failed
       /\ ~listing.last.isNil
       /\ listing.last.shas = <<>>

\* C23 witness: GetNoteList returned after every note of an existing ref was
\* removed.
C23_Witness == Listed /\ listing.noted = {} /\ listing.refExists

\* The public operations of the store.
StoreOps == {"SetNote", "GetNote", "DeleteNote", "SetNoteJSON", "GetNoteJSON"}

\* C24 as stated: every public store operation called with an empty revision is
\* accepted and acts on the note of the commit HEAD points at when it is called.
C24_Original ==
    (store.last.op \in StoreOps /\ store.last.sha = "" /\ ~store.last.fault)
    => (~store.last.err.failed /\ store.last.key = store.head)

\* GetNote and SetNote resolve HEAD anew on each call: with an empty revision
\* they act on the note of the commit HEAD points at when they are called.
HeadResolvedAnew ==
    (store.last.op \in {"SetNote", "GetNote"} /\ store.last.sha = ""
       /\ ~store.last.fault /\ store.last.err.kind # "NoteNotFound")
    => (~store.last.err.failed /\ store.last.key = store.head)

\* The last call was given a symbolic revision expression that the backend
\* resolves to a commit.
ViaExpression(op) ==
    /\ store.last.op = op
    /\ store.last.sha \in SymbolicRefs
    /\ RevParse(store.last.sha, store.head) \in Commits
    /\ ~store.last.fault

\* C25 as stated: SetNote and GetNote do not reject a symbolic revision
\* expression that resolves, and a note set through the expression is returned
\* unchanged by GetNote through the same expression.
C25_Original ==
    /\ (ViaExpression("SetNote") \/ ViaExpression("GetNote"))
       => store.last.err.kind # "InvalidCommitSha"
    /\ (ViaExpression("GetNote") /\ store.written[store.last.key] # NoNote
          /\ store.viaExpr[store.last.key])
       => (~store.last.err.failed /\ store.last.out = store.written[store.last.key])

\* The part of C25 that the code keeps: the expression is accepted, and the note
\* read through it is the note set through it up to surrounding whitespace.
ExpressionRoundTrip ==
    /\ (ViaExpression("SetNote") \/ ViaExpression("GetNote"))
       => store.last.err.kind # "InvalidCommitSha"
    /\ (ViaExpression("GetNote") /\ store.written[store.last.key] # NoNote
          /\ store.viaExpr[store.last.key])
       => (/\ ~store.last.err.failed
           /\ store.last.out = TrimSpace(Stripspace(store.written[store.last.key])))

DecodeDone == stream.pc = "done"

\* The first token of the content that neither is a document nor white space.
FirstFailure(content) ==
    IF \E i \in DOMAIN content : content[i] \notin JSONValues \cup {" "}
    THEN CHOOSE i \in DOMAIN content :
           /\ content[i] \notin JSONValues \cup {" "}
           /\ \A j \in 1..(i - 1) : content[j] \in JSONValues \cup {" "}
    ELSE Len(content) + 1

IsDocument(t) == t \in JSONValues

\* The documents before the first point where parsing fails, in their order.
DocsBeforeFailure(content) ==
    SelectSeq(SubSeq(content, 1, FirstFailure(content) - 1), IsDocument)

WholeConsumed(content) == FirstFailure(content) = Len(content) + 1

\* C26 as stated: the decoder returns exactly the documents before the first
\* point where parsing fails, in order; the error is nil if and only if the
\* whole content was consumed as documents, and a returned error names a
\* processed count equal to the number of documents returned.
C26_Original ==
    (DecodeDone /\ Len(DocsBeforeFailure(stream.content)) <= MaxJSONObjects)
    => /\ stream.results = DocsBeforeFailure(stream.content)
       /\ ~stream.err.failed <=> WholeConsumed(stream.content)
       /\ stream.err.failed => stream.processed = Len(stream.results)

\* What the decoder does keep of C26: the documents returned are the ones before
\* the first failure, a returned error names their number, and bytes that begin
\* no JSON value, or a document cut short, are reported.
PartialResults ==
    (DecodeDone /\ Len(DocsBeforeFailure(stream.content)) <= MaxJSONObjects)
    => /\ stream.results = DocsBeforeFailure(stream.content)
       /\ stream.err.failed => stream.processed = Len(stream.results)
       /\ WholeConsumed(stream.content) => ~stream.err.failed
       /\ (~WholeConsumed(stream.content)
             /\ stream.content[FirstFailure(stream.content)] \notin Closers)
          => stream.err.failed

\* C28: GetNoteJSON never returns more than MaxJSONObjects documents; more than
\* MaxJSONObjects valid documents yield the first MaxJSONObjects with the limit
\* error, which is not the decode error; exactly MaxJSONObjects valid documents
\* yield them all with no error.
C28_AtMostMaxJSONObjects ==
    /\ Len(stream.results) <= MaxJSONObjects
    /\ (DecodeDone /\ Len(DocsBeforeFailure(stream.content)) > MaxJSONObjects)
       => /\ stream.results =
               SubSeq(DocsBeforeFailure(stream.content), 1, MaxJSONObjects)
          /\ stream.err.failed
          /\ stream.err.kind = "too_many_objects"
          /\ stream.err.kind # "decode"
    /\ (DecodeDone /\ WholeConsumed(stream.content)
          /\ Len(DocsBeforeFailure(stream.content)) = MaxJSONObjects)
       => (stream.results = DocsBeforeFailure(stream.content) /\ ~stream.err.failed)

\* C28 witness: the decoder has returned for a content of more than
\* MaxJSONObjects valid documents.
C28_Witness ==
    /\ DecodeDone
    /\ WholeConsumed(stream.content)
    /\ Len(DocsBeforeFailure(stream.content)) > MaxJSONObjects

\* The decoder has returned for a content of exactly MaxJSONObjects documents.
ExactlyMaxJSONObjects ==
    /\ DecodeDone
    /\ WholeConsumed(stream.content)
    /\ Len(DocsBeforeFailure(stream.content)) = MaxJSONObjects

GetNoteJSONRead == store.last.op = "GetNoteJSON" /\ store.last.sha # ""

\* The underlying GetNote found no note, or a note without content.
AbsentOrEmpty ==
    /\ Resolved(store.last.sha) \in Commits
    /\ ~store.last.fault
    /\ \/ store.notes[LastKey] = NoNote
       \/ TrimSpace(store.notes[LastKey]) = EmptyText

UnresolvedJSONRead == GetNoteJSONRead /\ Resolved(store.last.sha) \notin Commits

\* The call of GetNoteWithContext has returned, and its context was cancelled
\* while call was in flight.
CancelledDuring(call) == ctxCall.returned /\ ctxCall.during = call

\* C30 as stated: when the context is cancelled while a backend call of
\* GetNoteWithContext is in flight, be it the validation of the revision, the
\* resolution of HEAD or the read of the note, the operation returns an error
\* that is the cancellation.
C30_Original ==
    \A call \in {"validate", "head", "show"} :
      CancelledDuring(call) => ctxCall.err.kind = Canceled.kind

\* What the code keeps of C30: a cancellation during the resolution of HEAD or
\* the read of the note never returns NoteNotFound, InvalidCommitSha or an
\* unclassified failure; the call returns the cancellation, or the note when
\* the read had ended before the kill.
CancelledContextCalls ==
    \A call \in {"head", "show"} :
      CancelledDuring(call)
      => \/ ctxCall.err.kind = Canceled.kind
         \/ ~ctxCall.err.failed /\ ctxCall.read

\* A cancellation during the validation of the revision is returned by the read
\* that follows when the revision resolves, and is lost to InvalidCommitSha when
\* it does not.
CancelledValidation ==
    CancelledDuring("validate")
    => ctxCall.err.kind \in {Canceled.kind, "InvalidCommitSha"}

----------------------------------------------------------------------------
(* Properties of the retry loop and of the steps of an attempt *)

\* The attempt before the running one ended in a rejected push.
RetriedAfterPushConflict == attemptErr.kind = "push" /\ IsPushRetryable(attemptErr)

\* The call made at least one and at most N attempts.
AttemptsWithinBudget ==
    (PushReturned /\ last.remote # "" /\ last.n >= 1)
    => (1 <= last.attempts /\ last.attempts <= last.n)

\* C32 as stated: PushNotesWithRetry(remote, N) with N >= 1 makes at least one
\* and at most N attempts, and starts another attempt only after an attempt that
\* ended in a PushConflict; any other failure is returned after its attempt.
C32_Original ==
    /\ AttemptsWithinBudget
    /\ (pc # "idle" /\ attempt >= 1) => RetriedAfterPushConflict

\* What the code keeps of C32: the attempts stay within the budget, and another
\* attempt starts only after an error whose text names a rejection, be it of the
\* push or of the merge.
RetriesOnlyRejections ==
    /\ AttemptsWithinBudget
    /\ (pc # "idle" /\ attempt >= 1)
       => (attemptErr.failed /\ IsPushRetryable(attemptErr)
           /\ attemptErr.kind \in {"push", "merge", "merge_conflict"})

\* The step goroutine g takes follows the order of pushNotesAttempt: abort,
\* fetch, snapshot, merge, push.  The push follows a fetch classified as "the
\* remote has no such ref", a snapshot that found no remote-tracking ref (the
\* merge is skipped), or a merge that did not fail; a failed merge is rolled
\* back and ends the attempt; a push that succeeded ends the call.
StepOrder(g) ==
    LET from == callers[g].pc
        to == callers'[g].pc
    IN callers'[g] # callers[g]
       => /\ from = "idle" => to = "abort"
          /\ from = "abort" => to = "fetch"
          /\ from = "fetch"
             => \/ to = "snapshot" /\ callers'[g].remoteNotesExist
                \/ to = "push" /\ ~callers'[g].remoteNotesExist
                \/ to \in {"idle", "abort"}
          /\ from = "snapshot"
             => \/ to = "merge" /\ remoteTrackingRef.exists
                \/ to = "push" /\ ~remoteTrackingRef.exists
          /\ from = "merge"
             => \/ to = "push" /\ ~callers'[g].err.failed
                \/ to = "rollback" /\ callers'[g].err.failed
                      /\ "Already up to date" \notin callers'[g].err.text
          /\ from = "rollback" => to \in {"idle", "abort"}
          /\ from = "push"
             => /\ to \in {"idle", "abort"}
                /\ remoteRef' # remoteRef => to = "idle"

\* C33: within an attempt the steps run in the order abort, fetch, snapshot,
\* merge, push; the push runs exactly when the fetch succeeded or was classified
\* as remote-ref-absent and the merge was skipped, succeeded or reported
\* already-current; a successful push ends the call without a further step.
C33_StepsInOrder == [][\A g \in Goroutines : StepOrder(g)]_vars

\* C33 witness: a goroutine is about to push after its merge step.
C33_Witness ==
    \E g \in Goroutines :
       /\ callers[g].pc = "push"
       /\ callers[g].remoteNotesExist
       /\ remoteTrackingRef.exists
       /\ localRef.exists

\* C34 as stated: the delay slept before retry number i is i * i * 100 ms, i
\* being the number of attempts already made; every retry is preceded by a
\* delay, every delay is strictly positive, the delays strictly increase, and
\* no delay follows the last attempt.
C34_Original ==
    \A g \in Goroutines :
       LET d == callers[g].slept
       IN /\ callers[g].pc # "idle" => Len(d) = callers[g].attempt
          /\ \A i \in DOMAIN d : d[i] = i * i * 100 /\ d[i] > 0
          /\ \A i, j \in DOMAIN d : i < j => d[i] < d[j]
          /\ Len(d) <= DefaultRetryAttempts - 1

\* What the code keeps of C34: a delay is slept before every retry and none
\* after the last attempt, and the delays strictly increase; the delay before
\* retry number i is (i - 1) * (i - 1) * 100 ms, which is nothing for the first.
BackoffFromZero ==
    \A g \in Goroutines :
       LET d == callers[g].slept
       IN /\ callers[g].pc # "idle" => Len(d) = callers[g].attempt
          /\ \A i \in DOMAIN d : d[i] = (i - 1) * (i - 1) * 100
          /\ \A i, j \in DOMAIN d : i < j => d[i] < d[j]
          /\ Len(d) <= DefaultRetryAttempts - 1

\* A call has slept before each of its two retries.
SleptTwice == \E g \in Goroutines : Len(callers[g].slept) = 2

\* C35 as stated: whatever PushNotesWithRetry returns, every note readable from
\* the local ref before the call is readable from it after the call.
C35_Original ==
    (PushReturned /\ last.attempts >= 1)
    => \A k \in Keys : last.preLocal.tree[k] \subseteq localRef.tree[k]

\* The commit the local ref pointed at is still in its history.
KeepsHistory(before, after) == before.exists => before \in History(after)

\* C35 amended: during a PushNotesWithRetry the local ref only moves forward:
\* the commit it pointed at before the call stays in its history, only the
\* merge step moves it, and each merge keeps, for every key, the note the local
\* side changed since the common ancestor with the fetched ref.
C35_PushKeepsLocalHistory ==
    [][/\ (last'.op = "PushNotes" /\ last'.attempts >= 1)
          => KeepsHistory(last'.preLocal, localRef')
       /\ (pc # "idle" /\ localRef' # localRef)
          => /\ pc = "merge"
             /\ KeepsHistory(localRef, localRef')
             /\ KeepsChanges(localRef, remoteTrackingRef, localRef')]_vars

\* C35 witness: a call that merged the remote's notes into a local ref that had
\* notes has returned, and the local ref has moved.
C35_Witness ==
    /\ PushReturned /\ last.attempts >= 1
    /\ HasNotes(last.preLocal)
    /\ localRef # last.preLocal
    /\ last.preLocal \in History(localRef)

----------------------------------------------------------------------------
(* Properties of the maps and of the termination of GetNotesBulk *)

\* C36 as stated: no access of the dispatch loop to the result map or the error
\* map overlaps a write to that map by a goroutine of the call.
C36_Original == ~bulk.raced /\ bulk.pc # "crashed"

\* Every goroutine the call started has got its slot, written its outcome
\* under the mutex and given the slot back: none waits, reads or writes.
WorkersDone ==
    /\ SumOver(bulk.waiting, BulkRefs) = 0
    /\ SlotsHeld = 0

\* C37 as stated: when every backend read returns, a GetNotesBulk call returns,
\* and at that moment every goroutine it started has released its slot and
\* recorded its outcome.
C37_Original ==
    /\ (bulk.pc = "validate") ~> BulkReturned
    /\ [](BulkReturned => WorkersDone)

\* What the code keeps of C37: a call that has not been stopped by the runtime
\* always has a step to take, no goroutine waits for a slot while none can be
\* given back, and a call that returns has every goroutine done.
BulkNeverBlocks ==
    /\ BulkRunning => ENABLED BulkStep
    /\ BulkReturned => WorkersDone

----------------------------------------------------------------------------
(* Properties of the backend commands of GetNoteList *)

\* C39: a call of GetNoteList runs at most two backend commands, however many
\* commits have a note: `git notes list` alone when it fails or prints nothing,
\* and otherwise one more, the `git show` that is given every listed commit.
C39_AtMostTwoCommands ==
    listing.last.op = "GetNoteList" =>
        /\ listing.last.cmds <= 2
        /\ listing.last.cmds =
              (IF listing.last.listFault \/ listing.noted = {} THEN 1 ELSE 2)

\* C39 witness: GetNoteList returned for a namespace in which three or more
\* commits have a note, after two commands.
C39_Witness ==
    /\ listing.last.op = "GetNoteList"
    /\ Cardinality(listing.noted) >= 3
    /\ listing.last.cmds = 2
    /\ listing.last.err = Returned(Nil)

----------------------------------------------------------------------------
(* Properties of the exit-code tests *)

\* The command of the last call on the namespace failed with exit code 128 and
\* a diagnostic in which none of the given phrases occurs.
Failed128Without(phrases) ==
    /\ listing.last.out.failed /\ listing.last.out.code = 128
    /\ \A p \in phrases : ~Contains(ToLower(listing.last.out.text), p)

\* C38 as stated: a failure of the backend with exit status 128 is not handled
\* by a rule for exit status 1 unless its text matches: DeleteNote does not
\* return success for it, and GetNoteList does not return an empty list for it.
C38_Original ==
    /\ (listing.last.op = "DeleteNote" /\ Failed128Without({"object has no note"}))
       => listing.last.err.failed
    /\ (listing.last.op = "GetNoteList"
        /\ Failed128Without({"bad notes ref", "does not exist", "no notes found"}))
       => listing.last.err.failed

\* A failure with an exit code in which no "1" stands first is returned as an
\* error by both operations.
ExitCode2Returned ==
    (listing.last.out.failed /\ listing.last.out.code = 2) => listing.last.err.failed

----------------------------------------------------------------------------
(* Properties of formatNamespaceRef and of the tests of diagnostic texts *)

\* C31: the ref name of a namespace is refs/notes/commits for the empty
\* namespace, the namespace itself when it begins with refs/notes/, and
\* refs/notes/ followed by the namespace otherwise; and the ref name of a ref
\* name is that ref name.
C31_FormatNamespaceRef ==
    applied.fn \in {"formatNamespaceRef", "formatNamespaceRef(ref)"}
    => LET n == applied.namespace
           qualified == n # <<>> /\ n[1] = "refs/notes/"
       IN /\ n = <<>> => applied.ref = <<"refs/notes/", "commits">>
          /\ qualified => applied.ref = n
          /\ (n # <<>> /\ ~qualified)
             => applied.ref = <<"refs/notes/">> \o n
          /\ applied.fn = "formatNamespaceRef(ref)" => applied.again = applied.ref

\* C31 witness: the ref name of a namespace that begins with refs/notes/ and
\* names something below it was formed again from itself.
C31_Witness ==
    /\ applied.fn = "formatNamespaceRef(ref)"
    /\ applied.namespace = <<"refs/notes/", "x">>
    /\ applied.again = applied.namespace

\* C40 as stated: what an operation makes of a failure does not change when the
\* letters of the diagnostic change case and the exit code stays.
C40_Original ==
    applied.fn \in Classifiers => applied.class = applied.upper

\* The tests of FetchNotes, and of the fetch and the merge of a push attempt,
\* are made on the diagnostic in lower case and do not depend on its case.
LoweredTestsIgnoreCase ==
    applied.fn \in {"FetchNotes", "fetch", "merge"} => applied.class = applied.upper

====
